---- MODULE Spec2Model ----
(***************************************************************************)
(* Agent broker: the registry (RegistryService) over its two store         *)
(* realizations, the in-memory store (MemoryStore, a map of pointers to     *)
(* RegisteredAgent values guarded by one RW mutex) and the vector-DB store  *)
(* (QdrantStore, one point per agent, looked up by the payload field "id"). *)
(* Each client is one request in flight; a step is one store call, one      *)
(* unlocked field access of a shared RegisteredAgent, or one clock read.    *)
(***************************************************************************)
EXTENDS Integers, Sequences, FiniteSets, TLC

(* ------------------------------ bounds --------------------------------- *)
\* number of registry operations started in one behaviour
MaxOps == 4
\* last tick of the clock
MaxTime == 2
\* clock ticks per second (time.Time is finer than the Unix seconds persisted)
TicksPerSecond == 2
\* dimension D of the embedding vectors
Dim == 2
\* number of callers that send requests to the sidecar
MaxCallers == 3
\* number of startups of the vector-DB store in one behaviour
MaxStarts == 4
\* largest number of points that match the filter of a scroll
MaxMatches == 201
\* number of lines of an SSE response
MaxLines == 3

(* --------------------------- program constants ------------------------- *)
MaxIDLen == 64
\* Registry.List: the limit taken for none given, and the largest limit
DefaultListLimit == 20
MaxListLimit == 100
\* Registry.Discover: the limit taken for none given, and the largest limit
DefaultDiscoverLimit == 10
MaxDiscoverLimit == 50
\* the sidecar: MAX_CONCURRENT when the environment does not set it
DefaultMaxConcurrent == 100
\* scrollAll: batchSize
ScrollBatchSize == 100

(* ------------------------------ values --------------------------------- *)
Lower == {"a","b","c","d","e","f","g","h","i","j","k","l","m",
          "n","o","p","q","r","s","t","u","v","w","x","y","z"}
Upper == {"A","B","C","D","E","F","G","H","I","J","K","L","M",
          "N","O","P","Q","R","S","T","U","V","W","X","Y","Z"}
Digit == {"0","1","2","3","4","5","6","7","8","9"}
\* agentIDPattern: ^[a-zA-Z0-9_-]+$ ; an id is a sequence of characters
agentIDPattern(id) ==
    /\ Len(id) >= 1
    /\ \A i \in 1..Len(id) : id[i] \in Lower \cup Upper \cup Digit \cup {"_", "-"}

IdA == <<"a", "1">>
IdB == <<"b", "_">>
BadId == <<"a", " ">>
EmptyId == <<>>
ValidIds == {IdA, IdB}
AllIds == {IdA, IdB, BadId}
\* ids at the length limit: MaxIDLen characters, and one more
Id64 == [i \in 1..MaxIDLen |-> "z"]
LongId == [i \in 1..(MaxIDLen + 1) |-> "z"]
\* every id a request can carry
KnownIds == AllIds \cup {EmptyId, Id64, LongId}

Skill1 == [id |-> "translate", name |-> "Translate", description |-> ""]
Skill2 == [id |-> "sum", name |-> "Summarize", description |-> "short text"]
Card1 == [name |-> "EN-FR", description |-> "", url |-> "http://a/1",
          version |-> "1.0", skills |-> <<Skill1>>]
Card2 == [name |-> "Digest", description |-> "gamma", url |-> "http://a/2",
          version |-> "2.0", skills |-> <<Skill2, Skill1>>]
\* a card that fails validation: no name, a skill without id
BadCard == [name |-> "", description |-> "x", url |-> "http://a/3",
            version |-> "1.0",
            skills |-> <<[id |-> "", name |-> "N", description |-> ""]>>]
NoCard == [name |-> "", description |-> "", url |-> "", version |-> "",
           skills |-> <<>>]
Tags1 == <<"prod", "i18n">>
Tags2 == <<"dev">>
\* the request bodies the clients send: every card comes with its own tags
Inputs == {<<Card1, Tags1>>, <<Card2, Tags2>>, <<BadCard, <<>> >>}

NoAgent == [id |-> EmptyId, card |-> NoCard, tags |-> <<>>, embedding |-> <<>>,
            created |-> 0, updated |-> 0]

(* ----------------------------- registry -------------------------------- *)
\* the list of validation failures of a card, in the order they are found
RECURSIVE skillErrs(_, _)
skillErrs(skills, i) ==
    IF i > Len(skills) THEN <<>>
    ELSE (IF skills[i].id = "" THEN << <<"skill.id", i - 1>> >> ELSE <<>>)
         \o (IF skills[i].name = "" THEN << <<"skill.name", i - 1>> >> ELSE <<>>)
         \o skillErrs(skills, i + 1)

\* faulty variant: the validation stops at the first failure
ValidateAgentCardFirstOnly(card) ==
    IF card.name = "" THEN << <<"name", 0>> >>
    ELSE IF card.url = "" THEN << <<"url", 0>> >>
    ELSE IF card.version = "" THEN << <<"version", 0>> >>
    ELSE IF Len(card.skills) = 0 THEN << <<"skills", 0>> >>
    ELSE IF skillErrs(card.skills, 1) = <<>> THEN <<>>
    ELSE <<skillErrs(card.skills, 1)[1]>>

ValidateAgentCard(card) ==
    (IF card.name = "" THEN << <<"name", 0>> >> ELSE <<>>)
    \o (IF card.url = "" THEN << <<"url", 0>> >> ELSE <<>>)
    \o (IF card.version = "" THEN << <<"version", 0>> >> ELSE <<>>)
    \o (IF Len(card.skills) = 0 THEN << <<"skills", 0>> >> ELSE <<>>)
    \o skillErrs(card.skills, 1)

\* faulty variant: the length of the id is not checked
validateAgentIDNoLength(id) ==
    IF id = <<>> THEN "required"
    ELSE IF ~agentIDPattern(id) THEN "pattern"
    ELSE "ok"

validateAgentID(id) ==
    IF id = <<>> THEN "required"
    ELSE IF Len(id) > MaxIDLen THEN "too long"
    ELSE IF ~agentIDPattern(id) THEN "pattern"
    ELSE "ok"

\* strings.Join(parts, " ")
RECURSIVE Join(_)
Join(parts) ==
    IF Len(parts) = 0 THEN ""
    ELSE IF Len(parts) = 1 THEN parts[1]
    ELSE parts[1] \o " " \o Join(Tail(parts))

RECURSIVE skillParts(_)
skillParts(skills) ==
    IF Len(skills) = 0 THEN <<>>
    ELSE <<skills[1].name>>
         \o (IF skills[1].description # "" THEN <<skills[1].description>> ELSE <<>>)
         \o skillParts(Tail(skills))

\* faulty variant: the description of the card is left out
buildEmbeddingTextNoDescription(card) ==
    Join(<<card.name>> \o skillParts(card.skills))

buildEmbeddingText(card) ==
    Join(<<card.name>>
         \o (IF card.description # "" THEN <<card.description>> ELSE <<>>)
         \o skillParts(card.skills))

\* the embedder: a deterministic map from a text to a vector of length Dim
Embed(text) == [i \in 1..Dim |-> IF i = 1 THEN Len(text) ELSE 1]

(* ------------------------------ state ---------------------------------- *)
VARIABLES
    backend,    \* "memory" | "qdrant": the store realization injected
    embedder,   \* "none" | "good" | "faulty": the embedder injected
    now,        \* the clock, in ticks
    heap,       \* memory: the RegisteredAgent values allocated, by address
    agents,     \* memory: MemoryStore.agents, id -> address (0: no entry)
    points,     \* qdrant: the collection, point id -> point
    pc,         \* per client: where its request stands
    req,        \* per client: the request it serves
    loc,        \* per client: the local variables of the request
    last,       \* the response sent by the step just taken, if it sent one
    ops,        \* requests started so far
    solo,       \* the client whose latest request has run with no other
                \* request in flight since it started (0: there is none)
    sidecar,    \* the sidecar: its configuration, and per caller where the
                \* request that it proxies for that caller stands
    collection, \* qdrant: the collection and its payload indexes, and where
                \* the startup of the store stands
    scroll,     \* qdrant: the scrollAll loop of a ListAgents call
    stream      \* the sidecar: the SSE response that is being translated

vars == <<backend, embedder, now, heap, agents, points, pc, req, loc, last, ops,
          solo, sidecar, collection, scroll, stream>>

\* what no request of the broker changes: the store and embedder injected,
\* and the state of the sidecar, of the store's startup and of its scrolls
setup == <<backend, embedder, sidecar, collection, scroll, stream>>

\* the variables of the broker's requests
broker == <<backend, embedder, now, heap, agents, points, pc, req, loc, last,
            ops, solo>>

\* the requests in flight: every race in the code is between two requests
Clients == {1, 2}

\* embed: the outcome of the embedder call the request made ("none": no call)
\* ctx: the context.Context of the request, "live" or "cancelled"
NoReq == [op |-> "none", id |-> EmptyId, card |-> NoCard, tags |-> <<>>,
          embed |-> "none", ctx |-> "live"]
NoLoc == [ref |-> 0, pid |-> 0, emb |-> <<>>, agent |-> NoAgent]
\* a response: what was asked (op, id, card, tags; filter, vector and limit of
\* a List, Discover or SearchAgents call) and what was answered (status, agent;
\* list, scores and total of a List, Discover or SearchAgents call)
\* text: the text handed to the embedder; cause: the error the embedder or the
\* store reported to the Registry; error: the error the Registry returned;
\* invalid: the failures that a Validation error names; asked: the input of a
\* List or Discover; call: the store method that a List, Discover or
\* SearchAgents request called
NoRes == [client |-> 0, op |-> "none", id |-> EmptyId, card |-> NoCard,
          tags |-> <<>>, embed |-> "none", status |-> "none", agent |-> NoAgent,
          filter |-> [offset |-> 0, limit |-> 0, tags |-> <<>>, skills |-> <<>>,
                      query |-> ""],
          vector |-> <<>>, limit |-> 0, list |-> <<>>, scores |-> <<>>,
          total |-> 0, text |-> "", cause |-> <<>>, error |-> <<>>,
          invalid |-> <<>>,
          asked |-> [offset |-> 0, limit |-> 0, tags |-> <<>>, skills |-> <<>>,
                     query |-> ""],
          call |-> "none",
          pagination |-> [total |-> 0, offset |-> 0, limit |-> 0,
                          has_more |-> FALSE]]
\* ensureCollection: the payload indexes, in the order they are created
IndexOrder == <<"id", "tags", "skill_ids", "card_name", "card_description",
                "created_at">>

\* the collection and the startup of the store. exists, indexes: what the
\* database holds; at: "down" (no store), "check", "create", "index" (inside
\* NewQdrantStore), "up" (the store was returned); next: the place in
\* IndexOrder of the index created next; result: how the latest startup
\* ended; starts: startups so far
NoCollection == [exists |-> FALSE, indexes |-> {}, at |-> "down", next |-> 1,
                 result |-> "none", starts |-> 0]

\* the collection after a first startup that went through
Provisioned ==
    [exists |-> TRUE, indexes |-> {IndexOrder[k] : k \in 1..Len(IndexOrder)},
     at |-> "up", next |-> Len(IndexOrder) + 1, result |-> "ok", starts |-> 1]

\* no scroll: n points match, lastID is the paging offset (0: nil), all the
\* points collected
NoScroll == [at |-> "idle", n |-> 0, lastID |-> 0, all |-> <<>>, total |-> 0]

\* no SSE response: the lines of the body, the number of lines scanned, the
\* events written to the queue (by the place of their line), the context of
\* the call, and the error returned
NoStream == [at |-> "idle", body |-> <<>>, scanned |-> 0, queue |-> <<>>,
             ctx |-> "live", err |-> "none"]

\* what is known of a caller's latest Execute: the handler method of its call
\* context, the JSON-RPC method found for it, the method of the request that
\* was sent, whether the event queue was written, and the error returned
NoRun == [call |-> "", method |-> "", sent |-> "", wrote |-> FALSE, err |-> ""]

\* the callers of the sidecar
Callers == 1..MaxCallers

\* config.Load: MAX_CONCURRENT, <<>> if it is not set, else <<its value>>
Load(env) ==
    [MaxConcurrent |-> IF env = <<>> THEN DefaultMaxConcurrent ELSE env[1]]

\* the sidecar that run() starts with the environment env
Started(env) == [cfg |-> Load(env), at |-> [c \in Callers |-> "idle"],
                 run |-> [c \in Callers |-> NoRun]]

NoPayload == [id |-> EmptyId, card |-> <<"json", NoCard>>, card_name |-> "",
              card_description |-> "", tags |-> <<>>, skill_ids |-> <<>>,
              created_at |-> 0, updated_at |-> 0]
NoPoint == [live |-> FALSE, vector |-> <<>>, payload |-> NoPayload]

Init ==
    /\ backend \in {"memory", "qdrant"}
    /\ embedder \in {"none", "good"}
    /\ now = 0
    /\ heap = <<>>
    /\ agents = [i \in KnownIds |-> 0]
    /\ points = <<>>
    /\ pc = [p \in Clients |-> "idle"]
    /\ req = [p \in Clients |-> NoReq]
    /\ loc = [p \in Clients |-> NoLoc]
    /\ last = NoRes
    /\ ops = 0
    /\ solo = 0
    /\ sidecar = Started(<<>>)
    /\ collection = Provisioned
    /\ scroll = NoScroll
    /\ stream = NoStream

(* ------------------------------ clock ---------------------------------- *)
Tick ==
    /\ now < MaxTime
    /\ now' = now + 1
    /\ last' = NoRes
    /\ UNCHANGED <<setup, heap, agents, points, pc, req, loc, ops, solo>>

\* time.Time.Unix() and time.Unix(sec, 0)
Unix(t) == t \div TicksPerSecond
FromUnix(sec) == sec * TicksPerSecond

(* --------------------------- vector-DB store --------------------------- *)
\* json.Marshal / json.Unmarshal of the card: an opaque blob
MarshalCard(card) == <<"json", card>>
UnmarshalCard(blob) == blob[2]

\* faulty variant: created_at is taken from UpdatedAt
agentToPayloadCreatedFromUpdated(agent) ==
    [id |-> agent.id,
     card |-> MarshalCard(agent.card),
     card_name |-> agent.card.name,
     card_description |-> agent.card.description,
     tags |-> agent.tags,
     skill_ids |-> [i \in 1..Len(agent.card.skills) |-> agent.card.skills[i].id],
     created_at |-> Unix(agent.updated),
     updated_at |-> Unix(agent.updated)]

agentToPayload(agent) ==
    [id |-> agent.id,
     card |-> MarshalCard(agent.card),
     card_name |-> agent.card.name,
     card_description |-> agent.card.description,
     tags |-> agent.tags,
     skill_ids |-> [i \in 1..Len(agent.card.skills) |-> agent.card.skills[i].id],
     created_at |-> Unix(agent.created),
     updated_at |-> Unix(agent.updated)]

\* faulty variant: the tags of the payload are not read back
payloadToAgentNoTags(id, payload) ==
    [id |-> id,
     card |-> UnmarshalCard(payload.card),
     tags |-> <<>>,
     embedding |-> <<>>,
     created |-> FromUnix(payload.created_at),
     updated |-> FromUnix(payload.updated_at)]

payloadToAgent(id, payload) ==
    [id |-> id,
     card |-> UnmarshalCard(payload.card),
     tags |-> payload.tags,
     embedding |-> <<>>,
     created |-> FromUnix(payload.created_at),
     updated |-> FromUnix(payload.updated_at)]

\* the points a scroll with the filter id = agentID matches
MatchingPoints(agentID) ==
    {i \in 1..Len(points) : points[i].live /\ points[i].payload.id = agentID}

\* faulty variant: the lookup never finds a point
findPointNever(agentID) == {0}

\* faulty variant: the scroll carries no filter on the payload id
findPointUnfiltered(agentID) ==
    IF {i \in 1..Len(points) : points[i].live} = {} THEN {0}
    ELSE {i \in 1..Len(points) : points[i].live}

\* findPointByAgentID: a scroll with limit 1 returns one of the matching
\* points (the collection orders them by their random UUID), 0 for none
findPointByAgentID(agentID) ==
    IF MatchingPoints(agentID) = {} THEN {0} ELSE MatchingPoints(agentID)

\* QdrantStore.GetAgent once the point is found
pointToAgent(id, pid) ==
    [payloadToAgent(id, points[pid].payload) EXCEPT !.embedding = points[pid].vector]

\* the collection is created with dimension Dim and takes no other vector
UpsertAccepted(agent) == Len(agent.embedding) = Dim

(* ------------------------------ filters -------------------------------- *)
\* the characters of the card names, card descriptions and queries in use
Spell(s) ==
    CASE s = "" -> <<>>
      [] s = "EN-FR" -> <<"E", "N", "-", "F", "R">>
      [] s = "Digest" -> <<"D", "i", "g", "e", "s", "t">>
      [] s = "gamma" -> <<"g", "a", "m", "m", "a">>
      [] s = "x" -> <<"x">>
      [] s = "dig" -> <<"d", "i", "g">>
      [] s = "GAMMA" -> <<"G", "A", "M", "M", "A">>
      [] s = "fr en" -> <<"f", "r", " ", "e", "n">>

UpperSeq == <<"A","B","C","D","E","F","G","H","I","J","K","L","M",
              "N","O","P","Q","R","S","T","U","V","W","X","Y","Z">>
LowerSeq == <<"a","b","c","d","e","f","g","h","i","j","k","l","m",
              "n","o","p","q","r","s","t","u","v","w","x","y","z">>

\* the lower-case letter of every upper-case letter
LowerOf ==
    [c \in Upper |-> LowerSeq[CHOOSE k \in 1..Len(UpperSeq) : UpperSeq[k] = c]]

\* strings.ToLower
ToLower(chars) ==
    [i \in 1..Len(chars) |->
       IF chars[i] \in Upper THEN LowerOf[chars[i]] ELSE chars[i]]

\* strings.Contains
Contains(chars, sub) ==
    \E i \in 0..(Len(chars) - Len(sub)) : SubSeq(chars, i + 1, i + Len(sub)) = sub

AgentFilter(offset, limit, tags, skills, query) ==
    [offset |-> offset, limit |-> limit, tags |-> tags, skills |-> skills,
     query |-> query]
NoFilter == AgentFilter(0, 0, <<>>, <<>>, "")

\* faulty variant: the agent must carry every tag of the filter
matchesFilterAllTags(agent, filter) ==
    /\ (Len(filter.tags) > 0)
       => \A i \in 1..Len(filter.tags) : \E j \in 1..Len(agent.tags) :
            filter.tags[i] = agent.tags[j]
    /\ (Len(filter.skills) > 0)
       => \E i \in 1..Len(filter.skills) : \E j \in 1..Len(agent.card.skills) :
            filter.skills[i] = agent.card.skills[j].id
    /\ (filter.query # "")
       => \/ Contains(ToLower(Spell(agent.card.name)), ToLower(Spell(filter.query)))
          \/ Contains(ToLower(Spell(agent.card.description)),
                      ToLower(Spell(filter.query)))

\* matchesFilter of the in-memory store
matchesFilter(agent, filter) ==
    /\ (Len(filter.tags) > 0)
       => \E i \in 1..Len(filter.tags) : \E j \in 1..Len(agent.tags) :
            filter.tags[i] = agent.tags[j]
    /\ (Len(filter.skills) > 0)
       => \E i \in 1..Len(filter.skills) : \E j \in 1..Len(agent.card.skills) :
            filter.skills[i] = agent.card.skills[j].id
    /\ (filter.query # "")
       => \/ Contains(ToLower(Spell(agent.card.name)), ToLower(Spell(filter.query)))
          \/ Contains(ToLower(Spell(agent.card.description)),
                      ToLower(Spell(filter.query)))

\* the text index of the collection (field type text, default parameters):
\* lower-cased words, split at every character that is no letter and no digit
RECURSIVE Tokens(_, _)
Tokens(chars, word) ==
    IF Len(chars) = 0 THEN (IF word = <<>> THEN {} ELSE {word})
    ELSE IF Head(chars) \in Lower \cup Upper \cup Digit
    THEN Tokens(Tail(chars), word \o ToLower(<<Head(chars)>>))
    ELSE (IF word = <<>> THEN {} ELSE {word}) \cup Tokens(Tail(chars), <<>>)

\* qdrant.NewMatchText(field, query) on a text-indexed field: every word of
\* the query is a word of the field
MatchText(field, query) ==
    Tokens(Spell(query), <<>>) \subseteq Tokens(Spell(field), <<>>)

\* buildFilter: the points the translated filter selects (Must of Should's)
buildFilter(payload, filter) ==
    /\ (Len(filter.tags) > 0)
       => \E i \in 1..Len(filter.tags) : \E j \in 1..Len(payload.tags) :
            filter.tags[i] = payload.tags[j]
    /\ (Len(filter.skills) > 0)
       => \E i \in 1..Len(filter.skills) : \E j \in 1..Len(payload.skill_ids) :
            filter.skills[i] = payload.skill_ids[j]
    /\ (filter.query # "")
       => \/ MatchText(payload.card_name, filter.query)
          \/ MatchText(payload.card_description, filter.query)

(* ------------------------------ listing -------------------------------- *)
\* the built-in min
Min(a, b) == IF a < b THEN a ELSE b

\* sort.Slice(x, less) over a slice x that holds the elements of S in an order
\* the program does not control (iteration over a map, a scroll in the order
\* of random point ids): x ends as an arrangement of S in which no element is
\* less than the one before it (less: the pairs <<a, b>> with a less than b)
SortSlice(S, less) ==
    {x \in [1..Cardinality(S) -> S] :
       /\ \A i, j \in 1..Cardinality(S) : (i # j) => (x[i] # x[j])
       /\ \A i \in 1..(Cardinality(S) - 1) : <<x[i + 1], x[i]>> \notin less}

\* filtered[i].CreatedAt.After(filtered[j].CreatedAt)
createdAfter(a, b) == a.created > b.created

\* start := min(filter.Offset, len(filtered))
pageStart(offset, len) == Min(offset, len)

\* faulty variant: the end of the page is not cut at the number of matches
pageEndNoMin(start, limit, len) == start + limit

\* end := min(start+filter.Limit, len(filtered))
pageEnd(start, limit, len) == Min(start + limit, len)

\* filtered[start:end] with start = min(Offset, len), end = min(start+Limit, len)
Page(filtered, filter) ==
    SubSeq(filtered, pageStart(filter.offset, Len(filtered)) + 1,
           pageEnd(pageStart(filter.offset, Len(filtered)), filter.limit,
                   Len(filtered)))

\* MemoryStore.ListAgents, under the read lock: the results it can return
MemListAgents(filter) ==
    LET filtered == {heap[agents[id]] :
                       id \in {i \in KnownIds :
                                 /\ agents[i] # 0
                                 /\ matchesFilter(heap[agents[i]], filter)}}
        less == {ab \in filtered \X filtered : createdAfter(ab[1], ab[2])}
    IN {[agents |-> Page(x, filter), total |-> Len(x)] :
          x \in SortSlice(filtered, less)}

\* QdrantStore.ListAgents over the collection pts: one scroll (fewer than 100
\* points), the payloads turned into agents, the sort, the page
QListPoints(pts, filter) ==
    LET scrolled == {i \in 1..Len(pts) :
                       pts[i].live /\ buildFilter(pts[i].payload, filter)}
        agent(i) == payloadToAgent(pts[i].payload.id, pts[i].payload)
        less == {ij \in scrolled \X scrolled :
                   createdAfter(agent(ij[1]), agent(ij[2]))}
    IN {[agents |-> IF filter.limit = 0 THEN <<>>
                    ELSE Page([k \in 1..Len(x) |-> agent(x[k])], filter),
         total |-> Len(x)] :
          x \in SortSlice(scrolled, less)}

QListAgents(filter) == QListPoints(points, filter)

ListAgents(filter) ==
    IF backend = "memory" THEN MemListAgents(filter) ELSE QListAgents(filter)

(* ------------------------------ searching ------------------------------ *)
RECURSIVE Dot(_, _)
Dot(a, b) == IF Len(a) = 0 THEN 0 ELSE a[1] * b[1] + Dot(Tail(a), Tail(b))

\* cosineSimilarity. A score is kept exact, as the fraction <<n, d>> with
\* d > 0 that is the square of the cosine with the sign of the cosine: the
\* scores compare as these fractions do.
cosineSimilarity(a, b) ==
    IF Len(a) # Len(b) \/ Len(a) = 0 THEN <<0, 1>>
    ELSE IF Dot(a, a) = 0 \/ Dot(b, b) = 0 THEN <<0, 1>>
    ELSE <<(IF Dot(a, b) < 0 THEN 0 - 1 ELSE 1) * Dot(a, b) * Dot(a, b),
           Dot(a, a) * Dot(b, b)>>

\* n1/d1 > n2/d2 for fractions that are not negative, by their continued
\* fractions (no product is formed, so none leaves the range of the integers)
RECURSIVE FractionGreater(_, _, _, _)
FractionGreater(n1, d1, n2, d2) ==
    IF n1 \div d1 # n2 \div d2 THEN n1 \div d1 > n2 \div d2
    ELSE IF n1 % d1 = 0 THEN FALSE
    ELSE IF n2 % d2 = 0 THEN TRUE
    ELSE FractionGreater(d2, n2 % d2, d1, n1 % d1)

\* scored[i].Score > scored[j].Score
scoreGreater(s, t) ==
    IF s[1] >= 0 /\ t[1] >= 0 THEN FractionGreater(s[1], s[2], t[1], t[2])
    ELSE IF s[1] >= 0 THEN TRUE
    ELSE IF t[1] >= 0 THEN FALSE
    ELSE FractionGreater(0 - t[1], t[2], 0 - s[1], s[2])

\* faulty variant: agents without an embedding are scored too
hasEmbeddingAlways(agent) == TRUE

\* if len(agent.Embedding) == 0 { continue }
hasEmbedding(agent) == Len(agent.embedding) # 0

\* scored[:limit] if limit > 0 && len(scored) > limit
Truncate(scored, limit) ==
    IF limit > 0 /\ Len(scored) > limit THEN SubSeq(scored, 1, limit) ELSE scored

\* MemoryStore.SearchAgents, under the read lock: the results it can return
MemSearchAgents(query, limit, filter) ==
    LET scored == {[agent |-> heap[agents[id]],
                    score |-> cosineSimilarity(query, heap[agents[id]].embedding)] :
                     id \in {i \in KnownIds :
                               /\ agents[i] # 0
                               /\ matchesFilter(heap[agents[i]], filter)
                               /\ hasEmbedding(heap[agents[i]])}}
        less == {ab \in scored \X scored : scoreGreater(ab[1].score, ab[2].score)}
    IN {[status |-> "ok", agents |-> Truncate(x, limit)] :
          x \in SortSlice(scored, less)}

\* QdrantStore.SearchAgents: the collection answers a query vector of its own
\* dimension with the `limit` best points that pass the filter, best first,
\* points of equal score in an order of its own; it refuses any other vector
QSearchAgents(query, limit, filter) ==
    LET hits == {i \in 1..Len(points) :
                   points[i].live /\ buildFilter(points[i].payload, filter)}
        score(i) == cosineSimilarity(query, points[i].vector)
        less == {ij \in hits \X hits : scoreGreater(score(ij[1]), score(ij[2]))}
        scored(x) == [k \in 1..Len(x) |->
                        [agent |-> pointToAgent(points[x[k]].payload.id, x[k]),
                         score |-> score(x[k])]]
    IN IF Len(query) # Dim
       THEN {[status |-> "Store", agents |-> <<>>]}
       ELSE {[status |-> "ok", agents |-> SubSeq(scored(x), 1, Min(limit, Len(x)))] :
               x \in SortSlice(hits, less)}

SearchAgents(query, limit, filter) ==
    IF backend = "memory" THEN MemSearchAgents(query, limit, filter)
    ELSE QSearchAgents(query, limit, filter)

(* --------------------------- what a Get sees --------------------------- *)
\* the agents a GetAgent(id) issued in this state can return; {} is NotFound
StoredAgents(id) ==
    IF backend = "memory"
    THEN (IF agents[id] = 0 THEN {} ELSE {heap[agents[id]]})
    ELSE {pointToAgent(id, pid) : pid \in MatchingPoints(id)}

Present(id) == StoredAgents(id) # {}

(* ----------------------------- requests -------------------------------- *)
\* an error is the chain of its messages, the outermost first; nil is <<>>
ErrNotFound == <<"agent not found">>
ErrAlreadyExists == <<"agent already exists">>
Canceled == <<"context canceled">>

\* fmt.Errorf("<msg>: %w", err)
Errorf(msg, err) == <<msg>> \o err

\* the error that the embedder or the store handed to the Registry
Reported(r, status) ==
    CASE status = "NotFound" -> ErrNotFound
      [] status = "AlreadyExists" -> ErrAlreadyExists
      [] status = "Store" -> Errorf("upsert point", <<"rejected">>)
      [] status = "Embedding" ->
           IF r.embed = "cancelled" THEN Canceled ELSE <<"embedder failed">>
      [] OTHER -> <<>>

\* the error that Create, Get, Update and Delete return: the error of the
\* validation, the error of the embedder inside a new error, the error of the
\* store as it is
Returned(r, status) ==
    CASE status = "Validation" ->
           IF r.op = "Create" /\ validateAgentID(r.id) # "ok"
           THEN <<"agent id", validateAgentID(r.id)>>
           ELSE <<"invalid agent card">>
      [] status = "Embedding" ->
           Errorf("generate embedding", Reported(r, status))
      [] OTHER -> Reported(r, status)

\* the failures that the error of the validation names
Named(r, status) ==
    IF status # "Validation" THEN <<>>
    ELSE IF r.op = "Create" /\ validateAgentID(r.id) # "ok"
    THEN << <<"id", 0>> >>
    ELSE ValidateAgentCard(r.card)

Response(p, r, status, agent) ==
    [NoRes EXCEPT !.client = p, !.op = r.op, !.id = r.id, !.card = r.card,
                  !.tags = r.tags, !.embed = r.embed, !.status = status,
                  !.agent = agent,
                  !.text = IF r.embed = "none" THEN ""
                           ELSE buildEmbeddingText(r.card),
                  !.cause = Reported(r, status),
                  !.error = Returned(r, status),
                  !.invalid = Named(r, status)]

\* the request of client p ends with the error of a store call that was made
\* with a cancelled context: fmt.Errorf("<msg>: %w", err)
Cancelled(p, msg) ==
    /\ pc' = [pc EXCEPT ![p] = "idle"]
    /\ req' = [req EXCEPT ![p] = NoReq]
    /\ loc' = [loc EXCEPT ![p] = NoLoc]
    /\ last' = [Response(p, req[p], "Cancelled", NoAgent) EXCEPT
                  !.cause = Errorf(msg, Canceled),
                  !.error = Errorf(msg, Canceled)]

\* the request of client p ends with this response
Finish(p, status, agent) ==
    /\ pc' = [pc EXCEPT ![p] = "idle"]
    /\ req' = [req EXCEPT ![p] = NoReq]
    /\ loc' = [loc EXCEPT ![p] = NoLoc]
    /\ last' = Response(p, req[p], status, agent)

\* the request r of client p ends in the step that starts it
FinishAtOnce(p, r, status, agent) ==
    /\ last' = Response(p, r, status, agent)
    /\ UNCHANGED <<pc, req, loc>>

\* the request of client p goes on at `at` with its locals set to l
Goto(p, at, l) ==
    /\ pc' = [pc EXCEPT ![p] = at]
    /\ loc' = [loc EXCEPT ![p] = l]
    /\ last' = NoRes

\* client p starts a request: it runs alone if no other request is in flight
Solo(p) == IF \A q \in Clients \ {p} : pc[q] = "idle" THEN p ELSE 0

\* the outcomes of one embedder call: <<"ok", vector>>, <<"empty">>, <<"err">>,
\* and <<"cancelled">>: the error of the context
EmbedOutcomes(text) ==
    IF embedder = "good" THEN {<<"ok", Embed(text)>>}
    ELSE {<<"ok", Embed(text)>>, <<"empty", <<>> >>, <<"err", <<>> >>,
          <<"cancelled", <<>> >>}

\* faulty variant: an error of the embedder is not looked at
embedFailedNever(o) == FALSE

\* if err != nil { return nil, fmt.Errorf("generate embedding: %w", err) }
embedFailed(o) == o[1] \in {"err", "cancelled"}

\* Registry.Create up to the store call: validation, embedding, time.Now()
CreateBegin(p, id, card, tags) ==
    /\ pc[p] = "idle"
    /\ ops < MaxOps
    /\ ops' = ops + 1
    /\ solo' = Solo(p)
    /\ LET r == [op |-> "Create", id |-> id, card |-> card, tags |-> tags,
                 embed |-> "none", ctx |-> "live"]
           agent(emb) == [id |-> id, card |-> card, tags |-> tags,
                          embedding |-> emb, created |-> now, updated |-> now]
           go(o) == /\ req' = [req EXCEPT ![p] = [r EXCEPT !.embed = o[1]]]
                    /\ Goto(p, "c_store", [NoLoc EXCEPT !.agent = agent(o[2])])
       IN IF validateAgentID(id) # "ok" \/ ValidateAgentCard(card) # <<>>
          THEN FinishAtOnce(p, r, "Validation", NoAgent)
          ELSE IF embedder = "none"
          THEN go(<<"none", <<>> >>)
          ELSE \E o \in EmbedOutcomes(buildEmbeddingText(card)) :
                 IF embedFailed(o)
                 THEN FinishAtOnce(p, [r EXCEPT !.embed = o[1]], "Embedding",
                                   NoAgent)
                 ELSE go(o)
    /\ UNCHANGED <<setup, now, heap, agents, points>>

\* MemoryStore.CreateAgent, under the write lock
MemCreateAgent(p) ==
    /\ pc[p] = "c_store"
    /\ backend = "memory"
    /\ IF agents[req[p].id] # 0
       THEN /\ Finish(p, "AlreadyExists", NoAgent)
            /\ UNCHANGED <<heap, agents>>
       ELSE /\ heap' = Append(heap, loc[p].agent)
            /\ agents' = [agents EXCEPT ![req[p].id] = Len(heap) + 1]
            /\ Finish(p, "ok", loc[p].agent)
    /\ UNCHANGED <<setup, now, points, ops, solo>>

\* QdrantStore.CreateAgent: the lookup by payload id
QCreateFind(p) ==
    /\ pc[p] = "c_store"
    /\ backend = "qdrant"
    /\ IF req[p].ctx = "cancelled"
       THEN Cancelled(p, "check agent exists")
       ELSE \E found \in findPointByAgentID(req[p].id) :
              IF found # 0
              THEN Finish(p, "AlreadyExists", NoAgent)
              ELSE /\ Goto(p, "c_upsert", loc[p])
                   /\ UNCHANGED req
    /\ UNCHANGED <<setup, now, heap, agents, points, ops, solo>>

\* QdrantStore.CreateAgent: the upsert under a fresh UUID
QCreateUpsert(p) ==
    /\ pc[p] = "c_upsert"
    /\ IF req[p].ctx = "cancelled"
       THEN /\ Cancelled(p, "upsert point")
            /\ UNCHANGED points
       ELSE IF UpsertAccepted(loc[p].agent)
       THEN /\ points' = Append(points, [live |-> TRUE,
                                         vector |-> loc[p].agent.embedding,
                                         payload |-> agentToPayload(loc[p].agent)])
            /\ Finish(p, "ok", loc[p].agent)
       ELSE /\ Finish(p, "Store", NoAgent)
            /\ UNCHANGED points
    /\ UNCHANGED <<setup, now, heap, agents, ops, solo>>

\* Registry.Get: GetAgent. The in-memory store hands out the address of the
\* stored value; the vector-DB store builds a fresh value from one point.
GetBegin(p, id) ==
    /\ pc[p] = "idle"
    /\ ops < MaxOps
    /\ ops' = ops + 1
    /\ solo' = Solo(p)
    /\ LET r == [op |-> "Get", id |-> id, card |-> NoCard, tags |-> <<>>,
                 embed |-> "none", ctx |-> "live"]
       IN IF backend = "memory"
          THEN IF agents[id] = 0
               THEN FinishAtOnce(p, r, "NotFound", NoAgent)
               ELSE /\ req' = [req EXCEPT ![p] = r]
                    /\ Goto(p, "g_tags", [NoLoc EXCEPT !.ref = agents[id],
                                                       !.agent.id = id])
          ELSE \E found \in findPointByAgentID(id) :
                 IF found = 0
                 THEN FinishAtOnce(p, r, "NotFound", NoAgent)
                 ELSE FinishAtOnce(p, r, "ok", pointToAgent(id, found))
    /\ UNCHANGED <<setup, now, heap, agents, points>>

\* handleGet, toAgentResponse: the caller reads the fields of the agent it was
\* handed, holding no lock: first Tags, then Card, then the timestamps
GetReadTags(p) ==
    /\ pc[p] = "g_tags"
    /\ Goto(p, "g_card", [loc[p] EXCEPT !.agent.tags = heap[loc[p].ref].tags])
    /\ UNCHANGED <<setup, now, heap, agents, points, req, ops, solo>>

GetReadCard(p) ==
    /\ pc[p] = "g_card"
    /\ Goto(p, "g_time", [loc[p] EXCEPT !.agent.card = heap[loc[p].ref].card])
    /\ UNCHANGED <<setup, now, heap, agents, points, req, ops, solo>>

GetReadTimes(p) ==
    /\ pc[p] = "g_time"
    /\ Finish(p, "ok", [loc[p].agent EXCEPT
                          !.embedding = heap[loc[p].ref].embedding,
                          !.created = heap[loc[p].ref].created,
                          !.updated = heap[loc[p].ref].updated])
    /\ UNCHANGED <<setup, now, heap, agents, points, ops, solo>>

\* Registry.Update up to the first write: validation, GetAgent, embedding
UpdateBegin(p, id, card, tags) ==
    /\ pc[p] = "idle"
    /\ ops < MaxOps
    /\ ops' = ops + 1
    /\ solo' = Solo(p)
    /\ LET r == [op |-> "Update", id |-> id, card |-> card, tags |-> tags,
                 embed |-> "none", ctx |-> "live"]
           go(l, o) == /\ req' = [req EXCEPT ![p] = [r EXCEPT !.embed = o[1]]]
                       /\ Goto(p, "u_card", [l EXCEPT !.emb = o[2]])
           embed(l) == IF embedder = "none"
                       THEN go(l, <<"none", <<>> >>)
                       ELSE \E o \in EmbedOutcomes(buildEmbeddingText(card)) :
                              IF embedFailed(o)
                              THEN FinishAtOnce(p, [r EXCEPT !.embed = o[1]],
                                                "Embedding", NoAgent)
                              ELSE go(l, o)
       IN IF ValidateAgentCard(card) # <<>>
          THEN FinishAtOnce(p, r, "Validation", NoAgent)
          ELSE IF backend = "memory"
          THEN IF agents[id] = 0
               THEN FinishAtOnce(p, r, "NotFound", NoAgent)
               ELSE embed([NoLoc EXCEPT !.ref = agents[id]])
          ELSE \E found \in findPointByAgentID(id) :
                 IF found = 0
                 THEN FinishAtOnce(p, r, "NotFound", NoAgent)
                 ELSE embed([NoLoc EXCEPT !.agent = pointToAgent(id, found)])
    /\ UNCHANGED <<setup, now, heap, agents, points>>

\* existing.Card = input.Card: in memory `existing` is the stored value itself
UpdateWriteCard(p) ==
    /\ pc[p] = "u_card"
    /\ IF backend = "memory"
       THEN /\ heap' = [heap EXCEPT ![loc[p].ref].card = req[p].card]
            /\ Goto(p, "u_tags", loc[p])
       ELSE /\ heap' = heap
            /\ Goto(p, "u_tags", [loc[p] EXCEPT !.agent.card = req[p].card])
    /\ UNCHANGED <<setup, now, agents, points, req, ops, solo>>

\* existing.Tags = input.Tags
UpdateWriteTags(p) ==
    /\ pc[p] = "u_tags"
    /\ IF backend = "memory"
       THEN /\ heap' = [heap EXCEPT ![loc[p].ref].tags = req[p].tags]
            /\ Goto(p, "u_emb", loc[p])
       ELSE /\ heap' = heap
            /\ Goto(p, "u_emb", [loc[p] EXCEPT !.agent.tags = req[p].tags])
    /\ UNCHANGED <<setup, now, agents, points, req, ops, solo>>

\* existing.Embedding = emb
UpdateWriteEmbedding(p) ==
    /\ pc[p] = "u_emb"
    /\ IF backend = "memory"
       THEN /\ heap' = [heap EXCEPT ![loc[p].ref].embedding = loc[p].emb]
            /\ Goto(p, "u_time", loc[p])
       ELSE /\ heap' = heap
            /\ Goto(p, "u_time", [loc[p] EXCEPT !.agent.embedding = loc[p].emb])
    /\ UNCHANGED <<setup, now, agents, points, req, ops, solo>>

\* faulty variant: the time is written to CreatedAt
UpdateWriteCreatedAt(p) ==
    /\ pc[p] = "u_time"
    /\ IF backend = "memory"
       THEN /\ heap' = [heap EXCEPT ![loc[p].ref].created = now]
            /\ Goto(p, "u_store", loc[p])
       ELSE /\ heap' = heap
            /\ Goto(p, "u_store", [loc[p] EXCEPT !.agent.created = now])
    /\ UNCHANGED <<setup, now, agents, points, req, ops, solo>>

\* existing.UpdatedAt = time.Now()
UpdateWriteUpdatedAt(p) ==
    /\ pc[p] = "u_time"
    /\ IF backend = "memory"
       THEN /\ heap' = [heap EXCEPT ![loc[p].ref].updated = now]
            /\ Goto(p, "u_store", loc[p])
       ELSE /\ heap' = heap
            /\ Goto(p, "u_store", [loc[p] EXCEPT !.agent.updated = now])
    /\ UNCHANGED <<setup, now, agents, points, req, ops, solo>>

\* MemoryStore.UpdateAgent, under the write lock
MemUpdateAgent(p) ==
    /\ pc[p] = "u_store"
    /\ backend = "memory"
    /\ IF agents[req[p].id] = 0
       THEN /\ Finish(p, "NotFound", NoAgent)
            /\ UNCHANGED agents
       ELSE /\ agents' = [agents EXCEPT ![req[p].id] = loc[p].ref]
            /\ Finish(p, "ok", heap[loc[p].ref])
    /\ UNCHANGED <<setup, now, heap, points, ops, solo>>

\* QdrantStore.UpdateAgent: the lookup by payload id
QUpdateFind(p) ==
    /\ pc[p] = "u_store"
    /\ backend = "qdrant"
    /\ IF req[p].ctx = "cancelled"
       THEN Cancelled(p, "find agent")
       ELSE \E found \in findPointByAgentID(req[p].id) :
              IF found = 0
              THEN Finish(p, "NotFound", NoAgent)
              ELSE /\ Goto(p, "u_upsert", [loc[p] EXCEPT !.pid = found])
                   /\ UNCHANGED req
    /\ UNCHANGED <<setup, now, heap, agents, points, ops, solo>>

\* QdrantStore.UpdateAgent: the upsert at the point id found
QUpdateUpsert(p) ==
    /\ pc[p] = "u_upsert"
    /\ IF req[p].ctx = "cancelled"
       THEN /\ Cancelled(p, "upsert point")
            /\ UNCHANGED points
       ELSE IF UpsertAccepted(loc[p].agent)
       THEN /\ points' = [points EXCEPT ![loc[p].pid] =
                            [live |-> TRUE,
                             vector |-> loc[p].agent.embedding,
                             payload |-> agentToPayload(loc[p].agent)]]
            /\ Finish(p, "ok", loc[p].agent)
       ELSE /\ Finish(p, "Store", NoAgent)
            /\ UNCHANGED points
    /\ UNCHANGED <<setup, now, heap, agents, ops, solo>>

\* Registry.Delete: MemoryStore.DeleteAgent under the write lock, or the
\* lookup of QdrantStore.DeleteAgent
DeleteBegin(p, id) ==
    /\ pc[p] = "idle"
    /\ ops < MaxOps
    /\ ops' = ops + 1
    /\ solo' = Solo(p)
    /\ LET r == [op |-> "Delete", id |-> id, card |-> NoCard, tags |-> <<>>,
                 embed |-> "none", ctx |-> "live"]
       IN IF backend = "memory"
          THEN IF agents[id] = 0
               THEN /\ FinishAtOnce(p, r, "NotFound", NoAgent)
                    /\ UNCHANGED agents
               ELSE /\ agents' = [agents EXCEPT ![id] = 0]
                    /\ FinishAtOnce(p, r, "ok", NoAgent)
          ELSE /\ UNCHANGED agents
               /\ \E found \in findPointByAgentID(id) :
                    IF found = 0
                    THEN FinishAtOnce(p, r, "NotFound", NoAgent)
                    ELSE /\ req' = [req EXCEPT ![p] = r]
                         /\ Goto(p, "d_delete", [NoLoc EXCEPT !.pid = found])
    /\ UNCHANGED <<setup, now, heap, points>>

\* QdrantStore.DeleteAgent: the delete of the point found
QDeletePoint(p) ==
    /\ pc[p] = "d_delete"
    /\ IF req[p].ctx = "cancelled"
       THEN /\ Cancelled(p, "delete point")
            /\ UNCHANGED points
       ELSE /\ points' = [points EXCEPT ![loc[p].pid] = NoPoint]
            /\ Finish(p, "ok", NoAgent)
    /\ UNCHANGED <<setup, now, heap, agents, ops, solo>>

\* faulty variant: a limit above the maximum is let through
ListFilterNoMaximum(input) ==
    [input EXCEPT
       !.limit = IF input.limit <= 0 THEN DefaultListLimit ELSE input.limit,
       !.offset = IF input.offset < 0 THEN 0 ELSE input.offset]

\* Registry.List: the limit is brought into 1..100 (20 for none), a negative
\* offset to 0
ListFilter(input) ==
    [input EXCEPT
       !.limit = IF input.limit <= 0 THEN DefaultListLimit
                 ELSE IF input.limit > MaxListLimit THEN MaxListLimit
                 ELSE input.limit,
       !.offset = IF input.offset < 0 THEN 0 ELSE input.offset]

\* the request r of client p is answered at once with the response res
Answer(p, res) ==
    /\ last' = res
    /\ UNCHANGED <<pc, req, loc>>

\* handleList: the limit of the query, 20 when it is 0 or not a number
handleListLimit(limit) == IF limit = 0 THEN DefaultListLimit ELSE limit

\* handleList: the pagination of the response to the query whose offset and
\* limit it read as in query, when the registry returned res
PaginationResponse(query, res) ==
    [total |-> res.total,
     offset |-> query.offset,
     limit |-> handleListLimit(query.limit),
     has_more |-> query.offset + Len(res.agents) < res.total]

\* handleList with the query values of input, Registry.List and the store's
\* ListAgents
ListBegin(p, input) ==
    /\ pc[p] = "idle"
    /\ ops < MaxOps
    /\ ops' = ops + 1
    /\ solo' = Solo(p)
    /\ \E res \in ListAgents(ListFilter([input EXCEPT
                                            !.limit = handleListLimit(@)])) :
         Answer(p, [NoRes EXCEPT !.client = p, !.op = "List", !.status = "ok",
                                 !.asked = input, !.call = "ListAgents",
                                 !.filter = ListFilter(input),
                                 !.list = res.agents, !.total = res.total,
                                 !.pagination = PaginationResponse(input, res)])
    /\ UNCHANGED <<setup, now, heap, agents, points>>

\* the response to a SearchAgents call that returned res
SearchResponse(p, op, embed, vector, limit, filter, res) ==
    [NoRes EXCEPT !.client = p, !.op = op, !.embed = embed, !.status = res.status,
                  !.call = "SearchAgents",
                  !.cause = IF res.status = "ok" THEN <<>>
                            ELSE Errorf("query", <<"rejected">>),
                  !.error = IF res.status = "ok" THEN <<>>
                            ELSE Errorf("query", <<"rejected">>),
                  !.vector = vector, !.limit = limit, !.filter = filter,
                  !.list = [k \in 1..Len(res.agents) |-> res.agents[k].agent],
                  !.scores = [k \in 1..Len(res.agents) |-> res.agents[k].score]]

\* faulty variant: a limit above the maximum is let through
DiscoverLimitNoMaximum(limit) ==
    IF limit <= 0 THEN DefaultDiscoverLimit ELSE limit

\* Registry.Discover: the limit is brought into 1..50 (10 for none)
DiscoverLimit(limit) ==
    IF limit <= 0 THEN DefaultDiscoverLimit
    ELSE IF limit > MaxDiscoverLimit THEN MaxDiscoverLimit
    ELSE limit

\* faulty variant: a Registry without an embedder goes on to embed
embedderConfiguredAlways(e) == TRUE

\* if s.embedder == nil { return nil, fmt.Errorf("embedder not configured") }
embedderConfigured(e) == e # "none"

\* Registry.Discover: without an embedder it fails before anything is called;
\* else the query is embedded, and the store searched with the tags and skills
\* as the filter
DiscoverBegin(p, text, limit, tags, skills) ==
    /\ pc[p] = "idle"
    /\ ops < MaxOps
    /\ ops' = ops + 1
    /\ solo' = Solo(p)
    /\ LET lim == DiscoverLimit(limit)
           filter == AgentFilter(0, 0, tags, skills, "")
           asked == AgentFilter(0, limit, tags, skills, text)
           failed(embed, status, cause, error) ==
               Answer(p, [NoRes EXCEPT !.client = p, !.op = "Discover",
                                       !.embed = embed, !.status = status,
                                       !.asked = asked, !.cause = cause,
                                       !.error = error,
                                       !.limit = lim, !.filter = filter])
       IN IF ~embedderConfigured(embedder)
          THEN failed("none", "Unavailable", <<>>, <<"embedder not configured">>)
          ELSE \E o \in EmbedOutcomes(text) :
                 IF embedFailed(o)
                 THEN failed(o[1], "Embedding",
                             IF o[1] = "cancelled" THEN Canceled
                             ELSE <<"embedder failed">>,
                             Errorf("generate embedding",
                                    IF o[1] = "cancelled" THEN Canceled
                                    ELSE <<"embedder failed">>))
                 ELSE IF Len(o[2]) = 0
                 THEN failed(o[1], "Embedding", <<>>, <<"no embedding returned">>)
                 ELSE \E res \in SearchAgents(o[2], lim, filter) :
                        Answer(p, [SearchResponse(p, "Discover", o[1], o[2], lim,
                                                  filter, res)
                                     EXCEPT !.asked = asked, !.text = text])
    /\ UNCHANGED <<setup, now, heap, agents, points>>

\* a SearchAgents call on the store itself, with any query vector and limit
SearchBegin(p, query, limit, tags, skills) ==
    /\ pc[p] = "idle"
    /\ ops < MaxOps
    /\ ops' = ops + 1
    /\ solo' = Solo(p)
    /\ \E res \in SearchAgents(query, limit, AgentFilter(0, 0, tags, skills, "")) :
         Answer(p, SearchResponse(p, "Search", "none", query, limit,
                                  AgentFilter(0, 0, tags, skills, ""), res))
    /\ UNCHANGED <<setup, now, heap, agents, points>>

\* the caller of the request that client p serves goes away: the context of
\* the request, r.Context(), is cancelled
CancelRequest(p) ==
    /\ pc[p] # "idle"
    /\ req[p].ctx = "live"
    /\ req' = [req EXCEPT ![p].ctx = "cancelled"]
    /\ last' = NoRes
    /\ UNCHANGED <<setup, now, heap, agents, points, pc, loc, ops, solo>>

\* the steps of a request once it has started
Step(p) ==
    \/ MemCreateAgent(p)
    \/ QCreateFind(p)
    \/ QCreateUpsert(p)
    \/ GetReadTags(p)
    \/ GetReadCard(p)
    \/ GetReadTimes(p)
    \/ UpdateWriteCard(p)
    \/ UpdateWriteTags(p)
    \/ UpdateWriteEmbedding(p)
    \/ UpdateWriteUpdatedAt(p)
    \/ MemUpdateAgent(p)
    \/ QUpdateFind(p)
    \/ QUpdateUpsert(p)
    \/ QDeletePoint(p)

\* the requests the clients C send, with ids from I and bodies from B
Requests(C, I, B) ==
    \/ \E p \in C, id \in I, in \in B : CreateBegin(p, id, in[1], in[2])
    \/ \E p \in C, id \in I : GetBegin(p, id)
    \/ \E p \in C, id \in I, in \in B : UpdateBegin(p, id, in[1], in[2])
    \/ \E p \in C, id \in I : DeleteBegin(p, id)

\* requests served in parallel, all about one id
Next ==
    \/ Tick
    \/ Requests(Clients, {IdA}, {<<Card1, Tags1>>, <<Card2, Tags2>>})
    \/ \E p \in Clients : Step(p)

Spec == Init /\ [][Next]_vars

\* one client that sends its requests one after the other
NextSeq ==
    \/ Tick
    \/ Requests({1}, AllIds, Inputs)
    \/ Step(1)

SeqSpec == Init /\ [][NextSeq]_vars

\* an embedder that can fail: it may return an error or an empty result
InitFaulty ==
    /\ backend \in {"memory", "qdrant"}
    /\ embedder = "faulty"
    /\ now = 0
    /\ heap = <<>>
    /\ agents = [i \in KnownIds |-> 0]
    /\ points = <<>>
    /\ pc = [p \in Clients |-> "idle"]
    /\ req = [p \in Clients |-> NoReq]
    /\ loc = [p \in Clients |-> NoLoc]
    /\ last = NoRes
    /\ ops = 0
    /\ solo = 0
    /\ sidecar = Started(<<>>)
    /\ collection = Provisioned
    /\ scroll = NoScroll
    /\ stream = NoStream

\* one client that sends requests with ids around the limits of the id syntax
NextFaulty ==
    \/ Tick
    \/ Requests({1}, {Id64, BadId, EmptyId, LongId},
               {<<Card1, Tags1>>, <<BadCard, <<>> >>})
    \/ Step(1)
    \/ CancelRequest(1)

FaultSpec == InitFaulty /\ [][NextFaulty]_vars

\* the filters asked for: tags, skills and query alone and together
FilterParts ==
    {AgentFilter(0, 0, <<>>, <<>>, ""),
     AgentFilter(0, 0, <<"prod", "i18n">>, <<>>, ""),
     AgentFilter(0, 0, <<"i18n", "dev">>, <<>>, ""),
     AgentFilter(0, 0, <<"dev">>, <<"translate">>, ""),
     AgentFilter(0, 0, <<"prod">>, <<"sum">>, ""),
     AgentFilter(0, 0, <<>>, <<>>, "dig"),
     AgentFilter(0, 0, <<>>, <<"sum">>, "GAMMA"),
     AgentFilter(0, 0, <<>>, <<>>, "fr en")}

\* the List requests sent: every filter, and every page of the whole list
ListInputs ==
    FilterParts
    \cup {AgentFilter(o, l, <<>>, <<>>, "") :
            o \in (0 - 1)..2, l \in {1, MaxListLimit + 1}}

\* the query vectors handed to SearchAgents: the embedding of a card, the zero
\* vector, and a vector of another length
QueryVectors ==
    {Embed(buildEmbeddingText(Card1)), [i \in 1..Dim |-> 0],
     [i \in 1..(Dim + 1) |-> 1]}

\* one client that registers agents and lists and searches them
NextQuery ==
    \/ Tick
    \/ \E id \in ValidIds, in \in {<<Card1, Tags1>>, <<Card2, Tags2>>} :
         CreateBegin(1, id, in[1], in[2])
    \/ MemCreateAgent(1)
    \/ QCreateFind(1)
    \/ QCreateUpsert(1)
    \/ \E input \in ListInputs : ListBegin(1, input)
    \/ \E limit \in {0, 1}, tags \in {<<>>, <<"dev">>} :
         DiscoverBegin(1, "GAMMA", limit, tags, <<>>)
    \/ DiscoverBegin(1, "dig", MaxDiscoverLimit + 1, <<>>, <<"sum">>)
    \/ \E query \in QueryVectors, limit \in {0, 1}, tags \in {<<>>, <<"dev">>} :
         SearchBegin(1, query, limit, tags, <<>>)

QuerySpec == Init /\ [][NextQuery]_vars

\* one client that registers agents and lists them
NextPages ==
    \/ Tick
    \/ \E id \in ValidIds, in \in {<<Card1, Tags1>>, <<Card2, Tags2>>} :
         CreateBegin(1, id, in[1], in[2])
    \/ MemCreateAgent(1)
    \/ QCreateFind(1)
    \/ QCreateUpsert(1)
    \/ \E input \in ListInputs : ListBegin(1, input)

PageSpec == Init /\ [][NextPages]_vars

(* ------------------------------ cards ---------------------------------- *)
\* the skills of the cards sent: complete, without description, without id,
\* without name, without both
SkillFull == [id |-> "s", name |-> "S", description |-> "d"]
SkillPlain == [id |-> "t", name |-> "T", description |-> ""]
SkillNoId == [id |-> "", name |-> "S", description |-> ""]
SkillNoName == [id |-> "s", name |-> "", description |-> "d"]
SkillNeither == [id |-> "", name |-> "", description |-> ""]

\* the cards sent: every field that is validated is there or not, with no
\* skill, a good one, a bad one and two bad ones; and every field that is
\* embedded is there or not, in cards that are valid
Cards ==
    {[name |-> n, description |-> "", url |-> u, version |-> v, skills |-> s] :
       n \in {"", "N"}, u \in {"", "http://a"}, v \in {"", "1.0"},
       s \in {<<>>, <<SkillFull>>, <<SkillNoId>>, <<SkillNeither, SkillNoName>>}}
    \cup
    {[name |-> "N", description |-> d, url |-> "http://a", version |-> "1.0",
      skills |-> s] :
       d \in {"", "D"},
       s \in {<<SkillFull>>, <<SkillPlain>>, <<SkillFull, SkillPlain>>,
              <<SkillPlain, SkillFull>>}}

\* one client that creates and updates one agent with these cards
NextCards ==
    \/ \E card \in Cards : CreateBegin(1, IdA, card, <<>>)
    \/ \E card \in Cards : UpdateBegin(1, IdA, card, <<>>)
    \/ MemCreateAgent(1)
    \/ QCreateFind(1)
    \/ QCreateUpsert(1)
    \/ UpdateWriteCard(1)
    \/ UpdateWriteTags(1)
    \/ UpdateWriteEmbedding(1)
    \/ UpdateWriteUpdatedAt(1)
    \/ MemUpdateAgent(1)
    \/ QUpdateFind(1)
    \/ QUpdateUpsert(1)

CardSpec == Init /\ [][NextCards]_vars

(* ----------------------------- sidecar --------------------------------- *)
\* the handler methods that are proxied, and their JSON-RPC methods
methodMapping ==
    ("OnSendMessage" :> "message/send")
    @@ ("OnSendMessageStream" :> "message/stream")
    @@ ("OnGetTask" :> "tasks/get")
    @@ ("OnCancelTask" :> "tasks/cancel")
    @@ ("OnResubscribeToTask" :> "tasks/resubscribe")

\* the call contexts Execute is entered with: none, the proxied handler
\* methods, and a handler method that is not proxied
Calls == {"none", "OnSetTaskPushConfig"} \cup DOMAIN methodMapping

\* faulty variant: a handler method without a mapping is used as it is
getJSONRPCMethodUnchecked(call) ==
    [method |-> IF call \in DOMAIN methodMapping THEN methodMapping[call]
                ELSE call,
     err |-> ""]

\* getJSONRPCMethod: the JSON-RPC method of the call context, or an error
getJSONRPCMethod(call) ==
    IF call = "none"
    THEN [method |-> "", err |-> "call context not found"]
    ELSE IF call \notin DOMAIN methodMapping
    THEN [method |-> "", err |-> "unknown handler method"]
    ELSE [method |-> methodMapping[call], err |-> ""]

\* proxyExecutor.Execute is entered for a request of caller c whose call
\* context is call: without a JSON-RPC method it returns the error, with one
\* it goes on to build the request to the backend
ExecuteCall(c, call) ==
    /\ sidecar.at[c] = "idle"
    /\ LET got == getJSONRPCMethod(call)
       IN  sidecar' =
             IF got.err # ""
             THEN [sidecar EXCEPT
                     !.run[c] = [NoRun EXCEPT !.call = call, !.err = got.err]]
             ELSE [sidecar EXCEPT
                     !.at[c] = "translate",
                     !.run[c] = [NoRun EXCEPT !.call = call,
                                              !.method = got.method]]
    /\ UNCHANGED <<broker, collection, scroll, stream>>

\* proxyExecutor.Execute is entered for a message/send request of caller c
Execute(c) == ExecuteCall(c, "OnSendMessage")

\* TranslateRequest has failed and Execute returns, or the request is sent
\* with the method in its body
ExecuteDo(c) ==
    /\ sidecar.at[c] = "translate"
    /\ \E to \in {"idle", "backend"} :
         sidecar' =
           IF to = "idle"
           THEN [sidecar EXCEPT !.at[c] = to,
                                !.run[c].err = "failed to translate request"]
           ELSE [sidecar EXCEPT !.at[c] = to,
                                !.run[c].sent = sidecar.run[c].method]
    /\ UNCHANGED <<broker, collection, scroll, stream>>

\* httpClient.Do has failed or run into the timeout and Execute returns, or
\* the backend has answered
ExecuteAnswered(c) ==
    /\ sidecar.at[c] = "backend"
    /\ \E to \in {"idle", "response"} :
         sidecar' =
           IF to = "idle"
           THEN [sidecar EXCEPT !.at[c] = to,
                                !.run[c].err = "backend request failed"]
           ELSE [sidecar EXCEPT !.at[c] = to]
    /\ UNCHANGED <<broker, collection, scroll, stream>>

\* TranslateResponse has written the events and Execute returns
ExecuteReturn(c) ==
    /\ sidecar.at[c] = "response"
    /\ sidecar' = [sidecar EXCEPT !.at[c] = "idle", !.run[c].wrote = TRUE]
    /\ UNCHANGED <<broker, collection, scroll, stream>>

\* the sidecar started with MAX_CONCURRENT not set, or set to 1 or to 2
InitSidecar ==
    /\ backend = "memory"
    /\ embedder = "none"
    /\ now = 0
    /\ heap = <<>>
    /\ agents = [i \in KnownIds |-> 0]
    /\ points = <<>>
    /\ pc = [p \in Clients |-> "idle"]
    /\ req = [p \in Clients |-> NoReq]
    /\ loc = [p \in Clients |-> NoLoc]
    /\ last = NoRes
    /\ ops = 0
    /\ solo = 0
    /\ sidecar \in {Started(env) : env \in {<<>>, <<1>>, <<2>>}}
    /\ collection = Provisioned
    /\ scroll = NoScroll
    /\ stream = NoStream

\* the HTTP server runs the handler of every request on its own goroutine
NextSidecar ==
    \/ \E c \in Callers : Execute(c)
    \/ \E c \in Callers : ExecuteDo(c)
    \/ \E c \in Callers : ExecuteAnswered(c)
    \/ \E c \in Callers : ExecuteReturn(c)

SidecarSpec == InitSidecar /\ [][NextSidecar]_vars

\* the requests of two callers, with every call context
NextExec ==
    \/ \E c \in 1..2, call \in Calls : ExecuteCall(c, call)
    \/ \E c \in 1..2 : ExecuteDo(c)
    \/ \E c \in 1..2 : ExecuteAnswered(c)
    \/ \E c \in 1..2 : ExecuteReturn(c)

ExecSpec == InitSidecar /\ [][NextExec]_vars

(* ------------------------- startup of the store ------------------------ *)
\* the startup ends with an error: the store is closed, none is returned
StartFailed == [collection EXCEPT !.at = "down", !.result = "err"]

\* NewQdrantStore up to ensureCollection: the client is made and Ping is
\* called, which the database answers or not
NewQdrantStore ==
    /\ collection.at = "down"
    /\ collection.starts < MaxStarts
    /\ \E pinged \in BOOLEAN :
         collection' = IF pinged
                       THEN [collection EXCEPT !.at = "check", !.result = "none",
                                               !.starts = @ + 1]
                       ELSE [StartFailed EXCEPT !.starts = @ + 1]
    /\ UNCHANGED <<broker, sidecar, scroll, stream>>

\* ensureCollection: CollectionExists fails, or the collection exists and the
\* startup is over, or the collection is to be created
EnsureExists ==
    /\ collection.at = "check"
    /\ \E answered \in BOOLEAN :
         collection' = IF ~answered THEN StartFailed
                       ELSE IF collection.exists
                       THEN [collection EXCEPT !.at = "up", !.result = "ok"]
                       ELSE [collection EXCEPT !.at = "create"]
    /\ UNCHANGED <<broker, sidecar, scroll, stream>>

\* ensureCollection: CreateCollection
EnsureCreate ==
    /\ collection.at = "create"
    /\ \E created \in BOOLEAN :
         collection' = IF ~created THEN StartFailed
                       ELSE [collection EXCEPT !.exists = TRUE, !.indexes = {},
                                               !.at = "index", !.next = 1]
    /\ UNCHANGED <<broker, sidecar, scroll, stream>>

\* ensureCollection: the next CreateFieldIndex; after the last one the store
\* is returned
EnsureIndex ==
    /\ collection.at = "index"
    /\ \E created \in BOOLEAN :
         collection' =
           IF ~created THEN StartFailed
           ELSE [collection EXCEPT
                   !.indexes = @ \cup {IndexOrder[collection.next]},
                   !.next = @ + 1,
                   !.at = IF collection.next = Len(IndexOrder) THEN "up"
                          ELSE "index",
                   !.result = IF collection.next = Len(IndexOrder) THEN "ok"
                              ELSE "none"]
    /\ UNCHANGED <<broker, sidecar, scroll, stream>>

\* the broker stops: Close
CloseStore ==
    /\ collection.at = "up"
    /\ collection' = [collection EXCEPT !.at = "down"]
    /\ UNCHANGED <<broker, sidecar, scroll, stream>>

\* a database without the collection, and no store yet
InitStartup ==
    /\ backend = "qdrant"
    /\ embedder = "good"
    /\ now = 0
    /\ heap = <<>>
    /\ agents = [i \in KnownIds |-> 0]
    /\ points = <<>>
    /\ pc = [p \in Clients |-> "idle"]
    /\ req = [p \in Clients |-> NoReq]
    /\ loc = [p \in Clients |-> NoLoc]
    /\ last = NoRes
    /\ ops = 0
    /\ solo = 0
    /\ sidecar = Started(<<>>)
    /\ collection = NoCollection
    /\ scroll = NoScroll
    /\ stream = NoStream

\* the broker is started, and started again after it failed or was stopped
NextStartup ==
    \/ NewQdrantStore
    \/ EnsureExists
    \/ EnsureCreate
    \/ EnsureIndex
    \/ CloseStore

StartupSpec == InitStartup /\ [][NextStartup]_vars

(* ------------------------- scrolling the matches ----------------------- *)
\* the database's Scroll over n matching points, which it keeps in the order
\* of their ids 1..n: at most limit points, starting at the point whose id is
\* the offset, or at the first one when no offset is given (0)
ScrollPoints(n, offset, limit) ==
    LET first == IF offset = 0 THEN 1 ELSE offset
    IN  [k \in 1..Min(limit, n - first + 1) |-> first + k - 1]

\* ListAgents on the vector-DB store calls scrollAll, n points matching
ScrollBegin ==
    /\ scroll.at = "idle"
    /\ \E n \in 0..MaxMatches :
         scroll' = [NoScroll EXCEPT !.at = "loop", !.n = n]
    /\ UNCHANGED <<broker, sidecar, collection, stream>>

\* scrollAll: one turn of the loop
ScrollBatch ==
    /\ scroll.at = "loop"
    /\ \E answered \in BOOLEAN :
         LET resp == ScrollPoints(scroll.n, scroll.lastID, ScrollBatchSize)
         IN  scroll' =
               IF ~answered THEN [scroll EXCEPT !.at = "failed"]
               ELSE IF Len(resp) < ScrollBatchSize
               THEN [scroll EXCEPT !.all = @ \o resp, !.at = "scrolled"]
               ELSE [scroll EXCEPT !.all = @ \o resp,
                                   !.lastID = resp[Len(resp)]]
    /\ UNCHANGED <<broker, sidecar, collection, stream>>

\* ListAgents: the total is the number of points scrollAll returned
ScrollTotal ==
    /\ scroll.at = "scrolled"
    /\ scroll' = [scroll EXCEPT !.at = "done", !.total = Len(scroll.all)]
    /\ UNCHANGED <<broker, sidecar, collection, stream>>

\* a started store, nothing scrolled yet
InitScroll ==
    /\ backend = "qdrant"
    /\ embedder = "good"
    /\ now = 0
    /\ heap = <<>>
    /\ agents = [i \in KnownIds |-> 0]
    /\ points = <<>>
    /\ pc = [p \in Clients |-> "idle"]
    /\ req = [p \in Clients |-> NoReq]
    /\ loc = [p \in Clients |-> NoLoc]
    /\ last = NoRes
    /\ ops = 0
    /\ solo = 0
    /\ sidecar = Started(<<>>)
    /\ collection = Provisioned
    /\ scroll = NoScroll
    /\ stream = NoStream

NextScroll ==
    \/ ScrollBegin
    \/ ScrollBatch
    \/ ScrollTotal

ScrollSpec == InitScroll /\ [][NextScroll]_vars

(* ------------------------ the streamed response ----------------------- *)
\* the lines a backend streams: one that is no data line, data that is no
\* JSON, an event of a kind that is not known, a task, a status update marked
\* final, and an artifact update on a line longer than the scanner's buffer
LineKinds == {"comment", "malformed", "unknown", "task", "final", "long"}

Bodies == UNION {[1..n -> LineKinds] : n \in 0..MaxLines}

\* bufio.Scanner with its default buffer: Scan gives up with ErrTooLong on a
\* line that does not fit
scannable(line) == line # "long"

\* strings.HasPrefix(line, "data: ")
isData(line) == line \in {"malformed", "unknown", "task", "final", "long"}

\* parseSSEEvent: whether the data parse to an event, and its final mark
parseSSEEvent(line) ==
    [ok |-> line \in {"task", "final", "long"}, final |-> line = "final"]

\* TranslateResponse hands a response of type text/event-stream to
\* handleSSEResponse
SseBegin ==
    /\ stream.at = "idle"
    /\ \E body \in Bodies :
         stream' = [NoStream EXCEPT !.at = "scan", !.body = body]
    /\ UNCHANGED <<broker, sidecar, collection, scroll>>

\* handleSSEResponse: one turn of the loop, from scanner.Scan to the next
SseLine ==
    /\ stream.at = "scan"
    /\ \E written \in BOOLEAN :
         LET k == stream.scanned + 1
             line == stream.body[k]
             parsed == parseSSEEvent(line)
         IN  stream' =
               IF k > Len(stream.body)
               THEN [stream EXCEPT !.at = "done"]
               ELSE IF ~scannable(line)
               THEN [stream EXCEPT !.at = "done", !.err = "ErrTooLong"]
               ELSE IF stream.ctx = "done"
               THEN [stream EXCEPT !.at = "done", !.scanned = k,
                                   !.err = "canceled"]
               ELSE IF ~isData(line) \/ ~parsed.ok
               THEN [stream EXCEPT !.scanned = k]
               ELSE IF ~written
               THEN [stream EXCEPT !.at = "done", !.scanned = k,
                                   !.err = "write"]
               ELSE [stream EXCEPT !.scanned = k,
                                   !.queue = Append(@, k),
                                   !.at = IF parsed.final THEN "done"
                                          ELSE "scan"]
    /\ UNCHANGED <<broker, sidecar, collection, scroll>>

\* the context of the call is cancelled while the response is read
SseCancel ==
    /\ stream.at = "scan"
    /\ stream.ctx = "live"
    /\ stream' = [stream EXCEPT !.ctx = "done"]
    /\ UNCHANGED <<broker, sidecar, collection, scroll>>

\* a sidecar that has sent a request and has its response
InitSse ==
    /\ backend = "memory"
    /\ embedder = "good"
    /\ now = 0
    /\ heap = <<>>
    /\ agents = [i \in KnownIds |-> 0]
    /\ points = <<>>
    /\ pc = [p \in Clients |-> "idle"]
    /\ req = [p \in Clients |-> NoReq]
    /\ loc = [p \in Clients |-> NoLoc]
    /\ last = NoRes
    /\ ops = 0
    /\ solo = 0
    /\ sidecar = Started(<<>>)
    /\ collection = Provisioned
    /\ scroll = NoScroll
    /\ stream = NoStream

NextSse ==
    \/ SseBegin
    \/ SseLine
    \/ SseCancel

SseSpec == InitSse /\ [][NextSse]_vars

(* ------------------------------ claims --------------------------------- *)
\* what the store persists
store == <<heap, agents, points>>

\* the entries the store holds for an id
Entries(id) ==
    IF backend = "memory"
    THEN (IF agents[id] = 0 THEN {} ELSE {agents[id]})
    ELSE MatchingPoints(id)

\* client p takes the step that ends its request
Ends(p) == pc[p] # "idle" /\ pc'[p] = "idle"

\* C1: a Create whose store call finds the id present (as after an earlier
\* Create of that id) answers AlreadyExists and leaves the store as it was,
\* with exactly one entry for the id.
C1_SecondCreateRejected ==
    [][\A p \in Clients, id \in AllIds :
         (pc[p] = "c_store" /\ pc'[p] # "c_store" /\ req[p].id = id /\ Present(id))
         => /\ last'.op = "Create"
            /\ last'.id = id
            /\ last'.status = "AlreadyExists"
            /\ store' = store
            /\ Cardinality(Entries(id)') = 1]_vars

C1_Witness ==
    /\ last.op = "Create"
    /\ last.status = "AlreadyExists"
    /\ Cardinality(Entries(last.id)) = 1

\* C2: in every reachable state the store holds at most one entry per id, and
\* a Create that answers ok leaves exactly one entry for its id.
C2_OneEntryPerId ==
    /\ \A id \in AllIds : Cardinality(Entries(id)) <= 1
    /\ (last.op = "Create" /\ last.status = "ok")
       => Cardinality(Entries(last.id)) = 1

\* C3: an absent id becomes present only by a Create that answers ok, a present
\* id becomes absent only by a Delete that answers ok; a Get, Delete or Update
\* (with a valid card) answered while the id is absent answers NotFound and
\* leaves the store unchanged.
C3_StateMachine ==
    [][/\ \A id \in AllIds :
            /\ (~Present(id) /\ Present(id)')
               => (last'.op = "Create" /\ last'.status = "ok" /\ last'.id = id)
            /\ (Present(id) /\ ~Present(id)')
               => (last'.op = "Delete" /\ last'.status = "ok" /\ last'.id = id)
       /\ (/\ last'.op \in {"Get", "Update", "Delete"}
           /\ ~Present(last'.id)
           /\ ValidateAgentCard(last'.card) = <<>> \/ last'.op # "Update")
          => (last'.status = "NotFound" /\ store' = store)]_vars

C3_Witness ==
    /\ last.op = "Update"
    /\ last.status = "NotFound"
    /\ ~Present(last.id)
    /\ \E id \in AllIds : Present(id)

\* C4: right after a Delete that ran with no other request in flight and
\* answers ok, a Get of that id finds nothing (and so a Create of it succeeds).
C4_DeletedIsAbsent ==
    (last.op = "Delete" /\ last.status = "ok" /\ solo = last.client)
    => ~Present(last.id)

\* C5: right after a Create that answers ok, a Get of that id returns an agent
\* with the card and the tags of the request and created_at = updated_at.
C5_CreateThenGet ==
    (last.op = "Create" /\ last.status = "ok")
    => /\ Present(last.id)
       /\ \A a \in StoredAgents(last.id) :
            /\ a.id = last.id
            /\ a.card = last.card
            /\ a.tags = last.tags
            /\ a.created = a.updated

C5_Witness ==
    /\ last.op = "Create"
    /\ last.status = "ok"
    /\ last.tags # <<>>
    /\ now > 0

\* the timestamp a store hands back for the instant t
Persisted(t) == IF backend = "memory" THEN t ELSE FromUnix(Unix(t))

\* C6: an Update that answers ok has replaced the stored card, tags and
\* embedding by those of the request and set updated_at to the time it read;
\* no step of an Update changes the id or created_at of the agent, nor any
\* other agent of the store.
C6_UpdateFrame ==
    [][\A p \in Clients, id \in AllIds :
         (req[p].op = "Update" /\ req[p].id = id /\ pc'[p] # pc[p])
         => /\ \A other \in AllIds \ {id} : StoredAgents(other)' = StoredAgents(other)
            /\ {a.created : a \in StoredAgents(id)'}
                 = {a.created : a \in StoredAgents(id)}
            /\ (pc[p] = "u_time")
               => (IF backend = "memory" THEN heap'[loc[p].ref].updated = now
                   ELSE loc'[p].agent.updated = now)
            /\ (Ends(p) /\ last'.status = "ok")
               => /\ Present(id)'
                  /\ \A a \in StoredAgents(id)' :
                       /\ a.id = id
                       /\ a.card = req[p].card
                       /\ a.tags = req[p].tags
                       /\ a.embedding = loc[p].emb
                       /\ a.updated = Persisted(last'.agent.updated)]_vars

C6_Witness ==
    /\ last.op = "Update"
    /\ last.status = "ok"
    /\ \E a \in StoredAgents(last.id) : a.updated > a.created
    /\ \E id \in AllIds \ {last.id} : Present(id)

\* C7: with the deterministic embedder, whenever no request is in progress
\* every stored agent's embedding is the embedding of its stored card's text.
C7_EmbeddingTracksCard ==
    (embedder = "good" /\ \A p \in Clients : pc[p] = "idle")
    => \A id \in AllIds : \A a \in StoredAgents(id) :
         a.embedding = Embed(buildEmbeddingText(a.card))

\* C8: a Get that answers ok returns one whole version of the agent: its card
\* and its tags come from the same request.
C8_GetSeesWholeVersion ==
    (last.op = "Get" /\ last.status = "ok")
    => <<last.agent.card, last.agent.tags>> \in Inputs

\* C9: no step of an Update changes the created_at stored for an id that is
\* present before and after the step.
C9_UpdateKeepsCreatedAt ==
    [][\A p \in Clients, id \in AllIds :
         (req[p].op = "Update" /\ req[p].id = id /\ pc'[p] # pc[p]
          /\ Present(id) /\ Present(id)')
         => {a.created : a \in StoredAgents(id)'}
              = {a.created : a \in StoredAgents(id)}]_vars

\* C10: every stored agent has updated_at >= created_at, in the in-memory
\* store and in the whole seconds the vector-DB payload holds.
C10_UpdatedNotBeforeCreated ==
    /\ \A id \in AllIds : \A a \in StoredAgents(id) : a.updated >= a.created
    /\ \A i \in 1..Len(points) :
         points[i].live => points[i].payload.updated_at >= points[i].payload.created_at

C10_Witness ==
    \/ \E i \in 1..Len(points) :
         /\ points[i].live
         /\ points[i].payload.updated_at > points[i].payload.created_at
    \/ \E id \in AllIds : \E a \in StoredAgents(id) :
         backend = "memory" /\ a.updated > a.created /\ a.created > 0

\* C11: with an embedder configured every stored agent has an embedding of
\* length Dim, and a request whose embedder call returned an empty result is
\* answered with an Embedding error.
C11_EmbeddingHasLengthD ==
    (embedder # "none")
    => /\ \A id \in KnownIds : \A a \in StoredAgents(id) : Len(a.embedding) = Dim
       /\ (last.embed = "empty") => (last.status = "Embedding")

\* C12: a Create or Update whose embedder call returned an error is answered
\* with an Embedding error by the step that made the call, and that step
\* leaves the store as it was.
C12_EmbedErrorMutatesNothing ==
    [][(last'.embed = "err")
       => /\ last'.op \in {"Create", "Update"}
          /\ last'.status = "Embedding"
          /\ store' = store]_vars

C12_Witness ==
    /\ last.op = "Update"
    /\ last.embed = "err"
    /\ last.status = "Embedding"
    /\ Present(last.id)

\* the id syntax ^[A-Za-z0-9_-]{1,64}$
MatchesIdSyntax(id) ==
    /\ Len(id) \in 1..64
    /\ \A i \in 1..Len(id) : id[i] \in Lower \cup Upper \cup Digit \cup {"_", "-"}

\* C13: no Create with an id outside the id syntax or with an invalid card, and
\* no Update with an invalid card, gets past its first step: that step answers
\* Validation, has called no embedder and leaves the store as it was (for an
\* Update also when the id is absent).
C13_ValidationIsPreflight ==
    [][/\ \A p \in Clients :
            /\ (req'[p].op = "Create")
               => (MatchesIdSyntax(req'[p].id)
                   /\ ValidateAgentCard(req'[p].card) = <<>>)
            /\ (req'[p].op = "Update") => (ValidateAgentCard(req'[p].card) = <<>>)
       /\ (\/ /\ last'.op = "Create"
              /\ ~MatchesIdSyntax(last'.id) \/ ValidateAgentCard(last'.card) # <<>>
           \/ /\ last'.op = "Update"
              /\ ValidateAgentCard(last'.card) # <<>>)
          => /\ last'.status = "Validation"
             /\ last'.embed = "none"
             /\ store' = store]_vars

C13_Witness ==
    /\ last.op = "Update"
    /\ last.status = "Validation"
    /\ ~Present(last.id)
    /\ \E id \in KnownIds : Present(id)

C13_WitnessLongId ==
    /\ last.op = "Create"
    /\ last.id = LongId
    /\ ValidateAgentCard(last.card) = <<>>
    /\ last.status = "Validation"
    /\ Present(Id64)

\* the characters of an id in the order of their codes
CharOrder ==
    <<"-">> \o <<"0","1","2","3","4","5","6","7","8","9">> \o UpperSeq
    \o <<"_">> \o LowerSeq
Code(c) == CHOOSE k \in 1..Len(CharOrder) : CharOrder[k] = c

\* id a comes before id b: the order of strings
RECURSIVE IdLess(_, _)
IdLess(a, b) ==
    IF Len(b) = 0 THEN FALSE
    ELSE IF Len(a) = 0 THEN TRUE
    ELSE IF Head(a) # Head(b) THEN Code(Head(a)) < Code(Head(b))
    ELSE IdLess(Tail(a), Tail(b))

\* a comes before b in a listing: later created_at first, then smaller id
InListOrder(a, b) ==
    \/ a.created > b.created
    \/ (a.created = b.created /\ IdLess(a.id, b.id))

\* the same filter asked for from the start and without a page limit
Whole(filter) == [filter EXCEPT !.offset = 0, !.limit = MaxListLimit]

\* C14: a List answers its agents by created_at descending and, for equal
\* created_at, by id ascending; and over one store state every call with the
\* same filter returns the same sequence.
C14_ListOrder ==
    (last.op = "List")
    => /\ \A i, j \in 1..Len(last.list) :
            (i < j) => InListOrder(last.list[i], last.list[j])
       /\ Cardinality(ListAgents(last.filter)) = 1

\* the sequences that the pages offset, offset + k, ... of successive calls
\* with page size k can add up to
RECURSIVE Pages(_, _, _)
Pages(filter, k, offset) ==
    LET calls == ListAgents([filter EXCEPT !.offset = offset, !.limit = k])
    IN IF \A r \in calls : offset >= r.total THEN {<<>>}
       ELSE {r.agents \o rest : r \in calls, rest \in Pages(filter, k, offset + k)}

\* the ids of the agents a List with this filter returns
ListedIds(filter) ==
    UNION {{r.agents[i].id : i \in 1..Len(r.agents)} : r \in ListAgents(Whole(filter))}

\* C15: over the store state a List has seen, for every filter and page size k
\* the pages (0,k), (k,k), ... hold every matching agent exactly once.
C15_PagesAreComplete ==
    (last.op = "List")
    => \A f \in FilterParts, k \in 1..2 : \A all \in Pages(f, k, 0) :
         /\ {all[i].id : i \in 1..Len(all)} = ListedIds(f)
         /\ \A i, j \in 1..Len(all) : (i # j) => (all[i].id # all[j].id)

\* the matches of the filter in the one order of C14
Ordered(filter) ==
    LET matches == UNION {{r.agents[i] : i \in 1..Len(r.agents)} :
                            r \in ListAgents(Whole(filter))}
    IN CHOOSE x \in [1..Cardinality(matches) -> matches] :
         \A i, j \in 1..Cardinality(matches) : (i < j) => InListOrder(x[i], x[j])

\* C16: the Total of a List is the number of agents that match its filter,
\* whatever offset and limit, and its page is the part offset .. offset+limit-1
\* of the ordered matches.
C16_TotalAndPage ==
    (last.op = "List")
    => /\ last.total = Cardinality(ListedIds(last.filter))
       /\ last.list = Page(Ordered(last.filter), last.filter)

\* the elements of a sequence
Range(seq) == {seq[i] : i \in 1..Len(seq)}

\* an agent matches a filter: every dimension that is not empty is satisfied
Matches(agent, filter) ==
    /\ (filter.tags # <<>>) => (Range(agent.tags) \cap Range(filter.tags) # {})
    /\ (filter.skills # <<>>)
       => ({sk.id : sk \in Range(agent.card.skills)} \cap Range(filter.skills) # {})
    /\ (filter.query # "")
       => \/ Contains(ToLower(Spell(agent.card.name)), ToLower(Spell(filter.query)))
          \/ Contains(ToLower(Spell(agent.card.description)),
                      ToLower(Spell(filter.query)))

\* C17: a List returns exactly the stored agents that match its filter: every
\* agent listed matches, and Total counts the stored agents that match.
C17_FilterSemantics ==
    (last.op = "List")
    => /\ \A i \in 1..Len(last.list) : Matches(last.list[i], last.filter)
       /\ last.total = Cardinality({id \in KnownIds :
                                      \E a \in StoredAgents(id) :
                                        Matches(a, last.filter)})

\* C18: over the store state a List with two tags has seen, a filter with
\* the tags of two disjoint tag lists lists the union of what the two lists
\* list, and its Total is the size of that union; so for the List just
\* answered and its two tags.
C18_TagUnion ==
    (last.op = "List" /\ Len(last.filter.tags) = 2)
    => /\ \A f \in {NoFilter, AgentFilter(0, 0, <<>>, <<"sum">>, "GAMMA")} :
            \A t1, t2 \in {<<"prod">>, <<"i18n">>, <<"dev">>, <<"dev", "prod">>,
                            <<"none">>} :
              (Range(t1) \cap Range(t2) = {})
              => LET both == [f EXCEPT !.tags = t1 \o t2]
                     parts == ListedIds([f EXCEPT !.tags = t1])
                                \cup ListedIds([f EXCEPT !.tags = t2])
                 IN /\ ListedIds(both) = parts
                    /\ \A r \in ListAgents(Whole(both)) : r.total = Cardinality(parts)
       /\ LET parts ==
                   ListedIds([last.filter EXCEPT !.tags = <<last.filter.tags[1]>>])
                   \cup ListedIds([last.filter EXCEPT !.tags = <<last.filter.tags[2]>>])
          IN /\ last.total = Cardinality(parts)
             /\ {a.id : a \in Range(last.list)} = parts

C18_Witness ==
    /\ last.op = "List"
    /\ last.filter.tags = <<"prod", "i18n">>
    /\ last.total = 1
    /\ Cardinality({id \in KnownIds : Present(id)}) = 2

\* C19: a search answers its agents by score descending and, for equal
\* scores, by id ascending; and over one store state every call with the same
\* arguments returns the same sequence.
C19_SearchOrder ==
    (last.op \in {"Discover", "Search"} /\ last.status = "ok")
    => /\ \A i, j \in 1..Len(last.list) :
            (i < j)
            => \/ scoreGreater(last.scores[i], last.scores[j])
               \/ /\ ~scoreGreater(last.scores[j], last.scores[i])
                  /\ IdLess(last.list[i].id, last.list[j].id)
       /\ Cardinality(SearchAgents(last.vector, last.limit, last.filter)) = 1

\* C20: every agent a search returns satisfies the tags and skills asked for
\* and has an embedding; with a limit above 0 no more than limit agents are
\* returned; the in-memory store answers a query vector of any length, and
\* scores 0 every agent whose embedding has another length than the query.
C20_SearchResults ==
    /\ (last.op = "Search" /\ backend = "memory") => (last.status = "ok")
    /\ (last.op \in {"Discover", "Search"} /\ last.status = "ok")
       => /\ \A i \in 1..Len(last.list) :
               /\ Matches(last.list[i], last.filter)
               /\ Len(last.list[i].embedding) # 0
               /\ (backend = "memory"
                   /\ Len(last.list[i].embedding) # Len(last.vector))
                  => (last.scores[i] = <<0, 1>>)
          /\ (last.limit > 0) => (Len(last.list) <= last.limit)
          /\ Len(last.scores) = Len(last.list)

C20_Witness ==
    /\ last.op = "Search"
    /\ last.status = "ok"
    /\ last.filter.tags # <<>>
    /\ Len(last.list) = 1
    /\ Len(last.list[1].embedding) # Len(last.vector)
    /\ Cardinality({id \in KnownIds : Present(id)}) = 2

\* the limits and offsets tried on the clamps: around 0, the defaults and the
\* maxima, and far off
LimitProbes == {0 - 1000, 0 - 1, 0, 1, 2, 9, 10, 11, 19, 20, 21, 49, 50, 51,
                99, 100, 101, 1000}
OffsetProbes == {0 - 1000, 0 - 1, 0, 1, 100, 1000}

\* C21: a Discover on a Registry that has no embedder is answered Unavailable
\* ("embedder not configured") whatever the query, limit, tags and skills are,
\* and it has called neither the embedder nor the store; a Discover on a
\* Registry that has an embedder is never answered so.
C21_DiscoverNeedsEmbedder ==
    (last.op = "Discover")
    => /\ (embedder = "none") <=> (last.status = "Unavailable")
       /\ (embedder = "none")
          => /\ last.call = "none"
             /\ last.embed = "none"
             /\ last.vector = <<>>
             /\ last.list = <<>>
             /\ last.error = <<"embedder not configured">>

C21_Witness ==
    /\ last.op = "Discover"
    /\ last.status = "Unavailable"
    /\ last.asked.limit > 50
    /\ last.asked.skills # <<>>
    /\ \E id \in ValidIds : Present(id)

\* C22: the filter that a List hands to the store has the limit asked for if
\* that is within 1..100, 20 if it is 0 or less, 100 if it is more than 100, and
\* the offset asked for, or 0 if that is negative; the tags, skills and query
\* are those asked for; the response holds no more agents than that limit.
C22_ListClamps ==
    /\ \A l \in LimitProbes, o \in OffsetProbes :
         LET f == ListFilter(AgentFilter(o, l, <<>>, <<>>, ""))
         IN /\ f.limit \in 1..100
            /\ f.limit = (IF l <= 0 THEN 20 ELSE IF l > 100 THEN 100 ELSE l)
            /\ f.offset = (IF o < 0 THEN 0 ELSE o)
    /\ (last.op = "List")
       => /\ last.call = "ListAgents"
          /\ last.filter.limit \in 1..100
          /\ last.filter.limit = (IF last.asked.limit <= 0 THEN 20
                                  ELSE IF last.asked.limit > 100 THEN 100
                                  ELSE last.asked.limit)
          /\ last.filter.offset = (IF last.asked.offset < 0 THEN 0
                                   ELSE last.asked.offset)
          /\ last.filter.tags = last.asked.tags
          /\ last.filter.skills = last.asked.skills
          /\ last.filter.query = last.asked.query
          /\ Len(last.list) <= last.filter.limit
          /\ Len(last.list) <= 100

C22_Witness ==
    /\ last.op = "List"
    /\ last.asked.limit > 100
    /\ last.asked.offset < 0
    /\ last.filter.limit = 100
    /\ last.filter.offset = 0
    /\ Len(last.list) = 2

\* C23: the limit that a Discover hands to SearchAgents is the limit asked for
\* if that is within 1..50, 10 if it is 0 or less, 50 if it is more than 50; the
\* filter it hands over has the tags and skills asked for and nothing else: no
\* query text, no offset, no limit; the response holds no more agents than the
\* limit handed over.
C23_DiscoverClamps ==
    /\ \A l \in LimitProbes :
         /\ DiscoverLimit(l) \in 1..50
         /\ DiscoverLimit(l) = (IF l <= 0 THEN 10 ELSE IF l > 50 THEN 50 ELSE l)
    /\ (last.op = "Discover" /\ last.call = "SearchAgents")
       => /\ last.limit \in 1..50
          /\ last.limit = (IF last.asked.limit <= 0 THEN 10
                           ELSE IF last.asked.limit > 50 THEN 50
                           ELSE last.asked.limit)
          /\ last.filter = [offset |-> 0, limit |-> 0, tags |-> last.asked.tags,
                            skills |-> last.asked.skills, query |-> ""]
          /\ Len(last.list) <= last.limit
          /\ Len(last.list) <= 50

C23_Witness ==
    /\ last.op = "Discover"
    /\ last.call = "SearchAgents"
    /\ last.status = "ok"
    /\ last.asked.limit > 50
    /\ last.limit = 50
    /\ last.asked.skills # <<>>
    /\ last.asked.query # ""
    /\ Len(last.list) > 0

\* C24: a CreateAgent or UpdateAgent call made with a context that is already
\* cancelled ends the request with a cancellation error and leaves the store
\* as it was, on the in-memory store and on the vector-DB store.
C24_CancelledStoreCallFails ==
    [][\A p \in Clients :
         (/\ pc[p] \in {"c_store", "u_store"}
          /\ req[p].ctx = "cancelled"
          /\ pc'[p] # pc[p])
         => /\ last'.status = "Cancelled"
            /\ last'.error # <<>>
            /\ last'.error[Len(last'.error)] = "context canceled"
            /\ store' = store]_vars

\* C25: when the embedder or the store has handed a cancellation error to a
\* Create, Update or Discover, the error that the Registry returns is that
\* error itself, not a new error with that error inside.
C25_CancellationNotWrapped ==
    (/\ last.op \in {"Create", "Update", "Discover"}
     /\ last.cause # <<>>
     /\ last.cause[Len(last.cause)] = "context canceled")
    => last.error = last.cause

\* the collection that the vector-DB store holds after the successful calls
\* that have left the in-memory store as it is, when they were made one after
\* the other: one point for every agent present, with the payload and the
\* vector of the agent that the last of these calls for its id has handed over
Mirror ==
    [k \in 1..Len(heap) |->
       IF \E id \in KnownIds : agents[id] = k
       THEN [live |-> TRUE, vector |-> heap[k].embedding,
             payload |-> agentToPayload(heap[k])]
       ELSE NoPoint]

\* the ids of a listing, in its order
IdsOf(list) == [k \in 1..Len(list) |-> list[k].id]

\* C26: after the same successful calls the two stores list alike: for every
\* filter without a text query and every offset and limit, a ListAgents of the
\* in-memory store and a ListAgents of the vector-DB store return the same
\* ids in the same order and the same Total, also for agents created within
\* one second.
C26_StoresListAlike ==
    (backend = "memory" /\ embedder = "good" /\ last.op = "List")
    => \A f \in {g \in FilterParts : g.query = ""}, o \in 0..2, l \in 1..2 :
         LET page == [f EXCEPT !.offset = o, !.limit = l]
         IN \A m \in MemListAgents(page), q \in QListPoints(Mirror, page) :
              /\ IdsOf(m.agents) = IdsOf(q.agents)
              /\ m.total = q.total

\* C27: on the vector-DB store no step of an Update makes an id present that
\* was absent before the step (an UpdateAgent whose id was deleted after its
\* lookup answers NotFound or leaves the id absent), so that an id deleted and
\* not created again stays absent; and a Get answered while its id is absent
\* answers NotFound.
C27_UpdateNeverRecreates ==
    [][(backend = "qdrant")
       => /\ \A p \in Clients, id \in AllIds :
               (/\ req[p].op = "Update"
                /\ req[p].id = id
                /\ pc'[p] # pc[p]
                /\ ~Present(id))
               => ~Present(id)'
          /\ (last'.op = "Get" /\ ~Present(last'.id))
             => (last'.status = "NotFound")]_vars

\* the proxied requests that are being executed: Execute entered, not returned
Executing == {c \in Callers : sidecar.at[c] # "idle"}

\* C28: at no time are more than MAX_CONCURRENT proxied requests being
\* executed by the sidecar.
C28_ConcurrencyBounded ==
    Cardinality(Executing) <= sidecar.cfg.MaxConcurrent

\* the rules that a card violates: name, url and version are not empty, there
\* is a skill, and the skill at every index has an id and a name
RulesViolated(card) ==
    {r \in {<<"name", 0>>} : card.name = ""}
    \cup {r \in {<<"url", 0>>} : card.url = ""}
    \cup {r \in {<<"version", 0>>} : card.version = ""}
    \cup {r \in {<<"skills", 0>>} : card.skills = <<>>}
    \cup {<<"skill.id", i - 1>> : i \in {k \in 1..Len(card.skills) :
                                           card.skills[k].id = ""}}
    \cup {<<"skill.name", i - 1>> : i \in {k \in 1..Len(card.skills) :
                                             card.skills[k].name = ""}}

\* C29: a Create (with a valid id) or Update is answered Validation exactly
\* when its card violates one of the rules, and the Validation error then
\* names every rule violated, each once, and no other.
C29_AllFailuresNamed ==
    (last.op \in {"Create", "Update"}
       /\ (last.op = "Update" \/ MatchesIdSyntax(last.id)))
    => /\ (last.status = "Validation") <=> (RulesViolated(last.card) # {})
       /\ {last.invalid[i] : i \in 1..Len(last.invalid)}
            = RulesViolated(last.card)
       /\ Len(last.invalid) = Cardinality(RulesViolated(last.card))

C29_Witness ==
    /\ last.op = "Create"
    /\ last.status = "Validation"
    /\ Len(last.invalid) = 6
    /\ Len(last.card.skills) = 2

\* the fields of a card that are embedded, in their order: name, description,
\* and name and description of every skill
RECURSIVE SkillFields(_)
SkillFields(skills) ==
    IF skills = <<>> THEN <<>>
    ELSE <<skills[1].name, skills[1].description>> \o SkillFields(Tail(skills))

\* the fields that are not empty, with one space between two of them
RECURSIVE Spaced(_)
Spaced(fields) ==
    IF fields = <<>> THEN ""
    ELSE IF fields[1] = "" THEN Spaced(Tail(fields))
    ELSE IF Spaced(Tail(fields)) = "" THEN fields[1]
    ELSE fields[1] \o " " \o Spaced(Tail(fields))

\* C30: the text that a Create or Update hands to the embedder is made of the
\* name and description of the card and then the name and description of each
\* skill in order, the empty ones left out, with single spaces in between; no
\* other field of the card has a part in it.
C30_EmbeddedText ==
    (last.op \in {"Create", "Update"} /\ last.embed # "none")
    => last.text = Spaced(<<last.card.name, last.card.description>>
                          \o SkillFields(last.card.skills))

C30_Witness ==
    /\ last.op = "Update"
    /\ last.status = "ok"
    /\ last.embed = "ok"
    /\ last.text = "N D S d T"
    /\ Len(last.agent.embedding) = Dim

\* C31: an agent handed out by a Get is a snapshot: while the caller holds
\* it, no step of another request changes its fields; and no step of an
\* Update before its UpdateAgent call changes what the store persists.
C31_ReadOnlySnapshots ==
    [][/\ \A p \in Clients :
            (/\ backend = "memory"
             /\ pc[p] \in {"g_tags", "g_card", "g_time"}
             /\ pc'[p] = pc[p])
            => heap'[loc[p].ref] = heap[loc[p].ref]
       /\ \A p \in Clients, id \in AllIds :
            (/\ pc[p] \in {"u_card", "u_tags", "u_emb", "u_time"}
             /\ pc'[p] # pc[p])
            => StoredAgents(id)' = StoredAgents(id)]_vars

\* the payload indexes of the schema
Schema == {"id", "tags", "skill_ids", "card_name", "card_description",
           "created_at", "updated_at"}

\* C32: when a startup of the vector-DB store has gone through, the collection
\* exists and has every payload index of the schema, whatever startups came
\* before; and no step of a startup changes a collection that has them all.
C32_StartupCompletesSchema ==
    [][/\ (collection'.at = "up")
          => (collection'.exists /\ collection'.indexes = Schema)
       /\ (collection.exists /\ collection.indexes = Schema)
          => (collection'.exists /\ collection'.indexes = collection.indexes)
      ]_vars

\* C33: when scrollAll has returned, it holds every matching point exactly
\* once, for any number of matches, and the Total that ListAgents reports is
\* the number of matches.
C33_ScrollExactlyOnce ==
    (scroll.at = "done")
        => (/\ scroll.all = [k \in 1..scroll.n |-> k]
            /\ scroll.total = scroll.n)

\* the lines of a body that carry a well-formed event of a known kind
EventLines(body) ==
    {k \in 1..Len(body) : body[k] \in {"task", "final", "long"}}

\* the events the queue is to get: those of the event lines in their order,
\* up to the first one marked final
Due(body) ==
    LET finals == {k \in EventLines(body) : body[k] = "final"}
        IsDue(k) == k \in EventLines(body) /\ \A f \in finals : k <= f
    IN  SelectSeq([k \in 1..Len(body) |-> k], IsDue)

\* C34: when handleSSEResponse has returned, the queue holds events of the
\* well-formed data lines in their order and none after the first final one;
\* it returns an error only when a queue write failed or the context was
\* cancelled, and without an error every such event is in the queue.
C34_StreamInOrder ==
    (stream.at = "done")
        => (/\ Len(stream.queue) <= Len(Due(stream.body))
            /\ stream.queue = SubSeq(Due(stream.body), 1, Len(stream.queue))
            /\ stream.err \in {"none", "write", "canceled"}
            /\ (stream.err = "none") => (stream.queue = Due(stream.body)))

\* the handler methods that are proxied, each with its JSON-RPC method
Proxied == {<<"OnSendMessage", "message/send">>,
            <<"OnSendMessageStream", "message/stream">>,
            <<"OnGetTask", "tasks/get">>,
            <<"OnCancelTask", "tasks/cancel">>,
            <<"OnResubscribeToTask", "tasks/resubscribe">>}

\* C35: a request to the backend is sent, or being built, only for a call of
\* one of the five proxied handler methods, and it carries the JSON-RPC method
\* of that handler method; an Execute without call context or with another
\* handler method has returned an error, translated and sent nothing and has
\* not written to the event queue.
C35_OnlyMappedMethodsSent ==
    \A c \in Callers :
        LET r == sidecar.run[c]
        IN  /\ (sidecar.at[c] # "idle" \/ r.sent # "" \/ r.method # "")
                => (/\ <<r.call, r.method>> \in Proxied
                    /\ r.sent \in {"", r.method})
            /\ (r.call # "" /\ \A pair \in Proxied : pair[1] # r.call)
                => (/\ sidecar.at[c] = "idle"
                    /\ r.err # ""
                    /\ r.method = ""
                    /\ r.sent = ""
                    /\ ~r.wrote)

\* a tasks/get request was sent for an OnGetTask call and has been answered,
\* while an Execute of another caller has failed for its handler method
C35_Witness ==
    \E c, d \in Callers :
        /\ sidecar.run[c].call = "OnGetTask"
        /\ sidecar.run[c].sent = "tasks/get"
        /\ sidecar.run[c].wrote
        /\ sidecar.run[d].call = "OnSetTaskPushConfig"
        /\ sidecar.run[d].err = "unknown handler method"

\* C36: in the response to a list request, has_more says whether matching
\* agents exist beyond the returned page, that is whether the offset that was
\* applied plus the number of agents returned is below the total; and the
\* offset and the limit reported are the ones that were applied.
C36_HasMore ==
    (last.op = "List")
        => (/\ last.pagination.has_more
                <=> (last.filter.offset + Len(last.list) < last.total)
            /\ last.pagination.offset = last.filter.offset
            /\ last.pagination.limit = last.filter.limit
            /\ last.pagination.total = last.total)

\* the agents of the in-memory store that match the filter
Matching(filter) ==
    {id \in KnownIds : agents[id] # 0 /\ matchesFilter(heap[agents[id]], filter)}

\* C37: over the in-memory store as it is at any time, for every offset and
\* limit asked for and every filter, the page bounds that a List computes from
\* the filter the Registry forwards satisfy 0 <= start <= end <= number of
\* matches; and a List over the in-memory store has not failed and returns
\* the agents between these bounds.
C37_PageInRange ==
    (backend = "memory")
        => (/\ \A n \in {Cardinality(Matching(part)) : part \in FilterParts},
                    o \in OffsetProbes \cup {2147483647}, l \in LimitProbes :
                 LET f == ListFilter(AgentFilter(o, l, <<>>, <<>>, ""))
                     start == pageStart(f.offset, n)
                     end == pageEnd(start, f.limit, n)
                 IN  0 <= start /\ start <= end /\ end <= n
            /\ (last.op = "List")
                => (/\ last.status = "ok"
                    /\ last.total = Cardinality(Matching(last.filter))
                    /\ Len(last.list)
                         = Min(last.filter.limit,
                               last.total - Min(last.filter.offset, last.total))))

\* a List over the in-memory store asked for a page that starts behind the
\* last of the matching agents, and got no agent
C37_Witness ==
    /\ backend = "memory"
    /\ last.op = "List"
    /\ last.status = "ok"
    /\ last.total > 0
    /\ last.asked.offset > last.total
    /\ last.list = <<>>

====
